---- MODULE Spec2Model ----
(***************************************************************************)
(* Capacity accounting of the admin API (server/app.js):                   *)
(*   calculateBucketUsageBytes            - paginated breadth-first walk   *)
(*   estimateDatabaseUsageFromActivaciones - row-sample estimator          *)
(*   estimateCombinedActivationCapacity   - capacity projector             *)
(*   GET /admin/storage/summary           - the route that calls them      *)
(*   POST /admin/users                    - Auth user plus activadores row *)
(*   DELETE /admin/activaciones/:id       - row delete, then photo remove  *)
(* and the confirmation dialog of the portal (src/services/feedback.js).   *)
(***************************************************************************)
EXTENDS Integers, Sequences, FiniteSets, TLC

VARIABLES
    bucket,               \* object storage: directory path -> listing read so far
    directoriesQueue,     \* calculateBucketUsageBytes: const directoriesQueue
    visitedDirectories,   \* calculateBucketUsageBytes: const visitedDirectories
    totalBytes,           \* calculateBucketUsageBytes: let totalBytes
    totalObjects,         \* calculateBucketUsageBytes: let totalObjects
    currentDirectory,     \* calculateBucketUsageBytes: const currentDirectory
    offset,               \* calculateBucketUsageBytes: let offset
    pc,                   \* position of the request in the route / the walk
    bucketUsage,          \* route: let bucketUsage
    res,                  \* route: the HTTP response written so far
    listCalls,            \* history: number of storage list() calls of this request
    listError,            \* history: the error a list() call answered with
    processed,            \* history: path -> times its pages were started
    enqueued,             \* history: path -> times it was pushed on the queue
    counted,              \* history: path -> what its entries added to the totals
    previousUsage,        \* history: bucketUsage of the previous request
    uploaded,             \* history: the file stored between the two requests
    table,                \* record store: the rows select('*') reads from activaciones
    estArgs,              \* estimateDatabaseUsageFromActivaciones: its options argument
    estPc,                \* estimateDatabaseUsageFromActivaciones: position of the call
    estReturn,            \* estimateDatabaseUsageFromActivaciones: the value returned
    estError,             \* estimateDatabaseUsageFromActivaciones: the error thrown
    estReads,             \* history: reads of the table by this call, with their limit
    estPrevious,          \* history: arguments and result of the call before
    projArgs,             \* estimateCombinedActivationCapacity: its argument
    projReturn,           \* estimateCombinedActivationCapacity: the value returned
    config,               \* createAdminApiApp: storageLimitBytes, databaseLimitBytes
    activacionesCount,    \* route: const activacionesCount
    activacionesWithPhotoCount,    \* route: const activacionesWithPhotoCount
    databaseSizeBytes,    \* route: let databaseSizeBytes
    databaseSizeUnavailableReason, \* route: let databaseSizeUnavailableReason
    estimationUnavailableReason,   \* route: let estimationUnavailableReason
    summary,              \* route: the summary sent with res.json
    answers,              \* history: what the counts and the probe answered this request
    previous,             \* history: answers and response of the request before
    authUsers,            \* Auth: the ids of the users it holds
    activadores,          \* record store: the rows of activadores
    userPc,               \* POST /admin/users: position of the request
    userBody,             \* POST /admin/users: req.body
    created,              \* POST /admin/users: created.user.id, null when none
    insertedUser,         \* POST /admin/users: const insertedUser
    insertErr,            \* POST /admin/users: insertErr.message, null when none
    userRes,              \* POST /admin/users: the HTTP response
    userCalls,            \* history: the Auth and table calls of this request
    activaciones,         \* record store: the rows {id, foto_url} of activaciones
    photos,               \* object storage: the object paths of the photo bucket
    delPc,                \* DELETE /admin/activaciones: position of each request
    activacionId,         \* DELETE /admin/activaciones: const activacionId
    existingRow,          \* DELETE /admin/activaciones: const existingRow
    storageObjectPath,    \* DELETE /admin/activaciones: const storageObjectPath
    delRes,               \* DELETE /admin/activaciones: the HTTP response
    removeLog,            \* history: the storage remove calls issued
    confirm,              \* feedback.js: feedbackState.confirm
    promises,             \* feedback.js: the promises requestConfirmation returned
    lastCall              \* history: the function called last

scanVars == <<bucket, directoriesQueue, visitedDirectories, totalBytes, totalObjects,
              currentDirectory, offset, pc, bucketUsage, res, listCalls, listError,
              processed, enqueued, counted, previousUsage, uploaded>>

estVars == <<table, estArgs, estPc, estReturn, estError, estReads, estPrevious>>

projVars == <<projArgs, projReturn>>

routeVars == <<config, activacionesCount, activacionesWithPhotoCount, databaseSizeBytes,
               databaseSizeUnavailableReason, estimationUnavailableReason, summary,
               answers, previous>>

userVars == <<authUsers, activadores, userPc, userBody, created, insertedUser, insertErr,
              userRes, userCalls>>

deleteVars == <<activaciones, photos, delPc, activacionId, existingRow, storageObjectPath,
                delRes, removeLog>>

confirmVars == <<confirm, promises, lastCall>>

adminVars == <<userVars, deleteVars, confirmVars>>

vars == <<scanVars, estVars, projVars, routeVars, adminVars>>

(***************************************************************************)
(* JavaScript values, as far as the code looks at them.                    *)
(***************************************************************************)
Num(n) == [k |-> "number", n |-> n, s |-> ""]
Str(s) == [k |-> "string", n |-> 0, s |-> s]
NaN == [k |-> "NaN", n |-> 0, s |-> ""]
Infinity == [k |-> "Infinity", n |-> 0, s |-> ""]
JsNull == [k |-> "null", n |-> 0, s |-> ""]
Undefined == [k |-> "undefined", n |-> 0, s |-> ""]

IsNullish(v) == v.k \in {"null", "undefined"}

\* a ?? b
Coalesce(a, b) == IF IsNullish(a) THEN b ELSE a

\* String.prototype.trim on the strings the model uses
Trim(s) ==
    CASE s = " " -> ""
      [] OTHER -> s

\* Number(string) on the strings the model uses
StringToNumber(s) ==
    CASE Trim(s) = "" -> Num(0)
      [] s = "650" -> Num(650)
      [] s = "-5" -> Num(-5)
      [] OTHER -> NaN

\* Number(value)
Number(v) ==
    CASE v.k = "number" -> v
      [] v.k = "NaN" -> NaN
      [] v.k = "Infinity" -> Infinity
      [] v.k = "null" -> Num(0)
      [] v.k = "undefined" -> NaN
      [] v.k = "string" -> StringToNumber(v.s)

\* Number.isFinite(value), for a value that is a number
IsFinite(v) == v.k = "number"

normalizeText(value) == IF value.k = "string" THEN Trim(value.s) ELSE ""

(***************************************************************************)
(* Object storage.  A listing entry is {name, id, metadata}; list() sorts  *)
(* by name when asked to; the walk does not depend on the order, and the   *)
(* model lets a listing have any order.  Catalogue holds the entry shapes; *)
(* a listing is a sequence of indices into it.                             *)
(***************************************************************************)
NoMetadata ==
    [present |-> FALSE, size |-> Undefined, contentLength |-> Undefined,
     content_length |-> Undefined]

Metadata(size, contentLength, content_length) ==
    [present |-> TRUE, size |-> size, contentLength |-> contentLength,
     content_length |-> content_length]

Entry(name, id, metadata) == [name |-> name, id |-> id, metadata |-> metadata]

Catalogue ==
    << Entry(Str(" "), JsNull, NoMetadata),
       Entry(Str(".emptyFolderPlaceholder"), Str("id"), Metadata(Num(0), Undefined, Undefined)),
       Entry(Str("a"), JsNull, NoMetadata),
       Entry(Str("a/a"), JsNull, NoMetadata),
       Entry(Str("f"), Str("id"), Metadata(Num(100), Undefined, Undefined)),
       Entry(Str("g"), JsNull, Metadata(Undefined, Num(250), Undefined)),
       Entry(Str("h"), Str("id"), NoMetadata),
       Entry(Str("i"), Str("id"), Metadata(Str("x"), Num(650), Undefined)) >>

Shapes == 1..Len(Catalogue)

\* page size of list() in the model (the source asks for 1000 entries a page)
PageLimit == 2

\* most entries the whole bucket holds
MaxEntries == 3

\* every listing of at most n entries, in any order
Listings(n) == UNION {[1..k -> Shapes] : k \in 0..n}

RECURSIVE SumLen(_, _)
SumLen(f, dirs) ==
    IF dirs = {} THEN 0
    ELSE LET d == CHOOSE x \in dirs : TRUE
         IN Len(f[d]) + SumLen(f, dirs \ {d})

\* the listings a directory that was not read yet may turn out to have
PossibleListings(dir) ==
    IF dir \in DOMAIN bucket THEN {bucket[dir]}
    ELSE LET used == SumLen(bucket, DOMAIN bucket)
         IN Listings(IF used >= MaxEntries THEN 0 ELSE MaxEntries - used)

Min(a, b) == IF a < b THEN a ELSE b

\* storage.from(bucket).list(dir, {limit, offset, sortBy: name asc}) -> data
ListData(listing, limit, off) ==
    IF off >= Len(listing) THEN << >>
    ELSE [i \in 1..Min(limit, Len(listing) - off) |-> Catalogue[listing[off + i]]]


(***************************************************************************)
(* calculateBucketUsageBytes(adminSupabase, bucketName)                    *)
(***************************************************************************)
NoUsage == [set |-> FALSE, totalBytes |-> 0, totalObjects |-> 0]
Usage(bytes, objects) == [set |-> TRUE, totalBytes |-> bytes, totalObjects |-> objects]

NoResponse == [status |-> 0, error |-> "", details |-> Undefined]

NoUpload == [set |-> FALSE, dir |-> "", size |-> 0]

Bump(f, p, by) ==
    IF p \in DOMAIN f THEN [f EXCEPT ![p] = @ + by] ELSE f @@ (p :> by)

Times(f, p) == IF p \in DOMAIN f THEN f[p] ELSE 0

AddCounted(f, p, bytes, objects) ==
    IF p \in DOMAIN f
    THEN [f EXCEPT ![p] = [bytes |-> @.bytes + bytes, objects |-> @.objects + objects]]
    ELSE f @@ (p :> [bytes |-> bytes, objects |-> objects])

\* const isDirectory = item?.id == null && !item?.metadata
isDirectory(item) == IsNullish(item.id) /\ ~item.metadata.present

\* const nextDirectory = currentDirectory ? `${currentDirectory}/${name}` : name
nextDirectory(current, name) ==
    IF current # "" THEN current \o "/" \o name ELSE name

NeverSkips(dir, visited) == FALSE

\* if (visitedDirectories.has(currentDirectory)) continue
SkipsDirectory(dir, visited) == dir \in visited

AlwaysPushes(dir, visited) == TRUE

\* if (!visitedDirectories.has(nextDirectory)) directoriesQueue.push(nextDirectory)
PushesDirectory(dir, visited) == dir \notin visited

NoPlaceholder(name) == FALSE

\* if (name === '.emptyFolderPlaceholder') continue
IsPlaceholder(name) == name = ".emptyFolderPlaceholder"

\* item?.metadata?.size ?? item?.metadata?.contentLength ?? item?.metadata?.content_length
sizeCandidate(item) ==
    Coalesce(Coalesce(item.metadata.size, item.metadata.contentLength),
             item.metadata.content_length)

AddedBytesSizeOnly(item) ==
    LET size == Number(item.metadata.size)
    IN IF IsFinite(size) /\ size.n > 0 THEN size.n ELSE 0

\* the bytes one file entry adds: Number.isFinite(size) && size > 0 ? size : 0
AddedBytes(item) ==
    LET size == Number(sizeCandidate(item))
    IN IF IsFinite(size) /\ size.n > 0 THEN size.n ELSE 0

\* the body of `for (const item of data)` for one item; st is the loop's state
ProcessItem(item, st, current, visited) ==
    LET name == normalizeText(item.name)
    IN IF name = "" THEN st
       ELSE IF isDirectory(item)
            THEN LET next == nextDirectory(current, name)
                 IN IF PushesDirectory(next, visited)
                    THEN [st EXCEPT !.queue = Append(@, next),
                                    !.enqueued = Bump(@, next, 1)]
                    ELSE st
            ELSE IF IsPlaceholder(name) THEN st
                 ELSE [st EXCEPT !.objects = @ + 1,
                                 !.bytes = @ + AddedBytes(item)]

RECURSIVE ProcessItems(_, _, _, _, _)
ProcessItems(data, i, st, current, visited) ==
    IF i > Len(data) THEN st
    ELSE ProcessItems(data, i + 1, ProcessItem(data[i], st, current, visited),
                      current, visited)

IsLastPageNever(data, limit) == FALSE

\* if (data.length < limit) break
IsLastPage(data, limit) == Len(data) < limit

AfterPeek(queue) == queue

\* const currentDirectory = directoriesQueue.shift(): what stays on the queue
AfterShift(queue) == Tail(queue)

\* line 293-302: take the next directory off the queue, skip it when visited
NextDirectory ==
    /\ pc = "while"
    /\ directoriesQueue # << >>
    /\ LET dir == Head(directoriesQueue)
       IN /\ directoriesQueue' = AfterShift(directoriesQueue)
          /\ currentDirectory' = dir
          /\ IF SkipsDirectory(dir, visitedDirectories)
             THEN UNCHANGED <<visitedDirectories, offset, pc, processed>>
             ELSE /\ visitedDirectories' = visitedDirectories \cup {dir}
                  /\ offset' = 0
                  /\ pc' = "list"
                  /\ processed' = Bump(processed, dir, 1)
    /\ UNCHANGED <<bucket, totalBytes, totalObjects, bucketUsage, res, listCalls,
                   listError, enqueued, counted, previousUsage, uploaded>>
    /\ UNCHANGED <<estVars, projVars, routeVars, adminVars>>

\* line 306-357: one list() call that answers with a page, and the page's entries
ListPage ==
    /\ pc = "list"
    /\ \E listing \in PossibleListings(currentDirectory) :
         LET data == ListData(listing, PageLimit, offset)
             st == ProcessItems(data, 1,
                     [queue |-> directoriesQueue, enqueued |-> enqueued,
                      bytes |-> totalBytes, objects |-> totalObjects],
                     currentDirectory, visitedDirectories)
         IN /\ bucket' = (IF currentDirectory \in DOMAIN bucket THEN bucket
                          ELSE bucket @@ (currentDirectory :> listing))
            /\ listCalls' = listCalls + 1
            /\ directoriesQueue' = st.queue
            /\ enqueued' = st.enqueued
            /\ totalBytes' = st.bytes
            /\ totalObjects' = st.objects
            /\ counted' = AddCounted(counted, currentDirectory,
                                     st.bytes - totalBytes, st.objects - totalObjects)
            /\ IF data = << >> \/ IsLastPage(data, PageLimit)
               THEN pc' = "while" /\ offset' = offset
               ELSE pc' = "list" /\ offset' = offset + PageLimit
    /\ UNCHANGED <<visitedDirectories, currentDirectory, bucketUsage, res, listError,
                   processed, previousUsage, uploaded>>
    /\ UNCHANGED <<estVars, projVars, routeVars, adminVars>>

\* the messages a failing list() call may carry
ErrorMessages == {Str("storage timeout"), Str("")}

\* jsonError(res, statusCode, message, details)
jsonError(statusCode, message, details) ==
    [status |-> statusCode, error |-> message,
     details |-> IF details.k = "string" /\ details.s # "" THEN details ELSE Undefined]

ListErrorSwallowed ==
    /\ pc = "list"
    /\ \E message \in ErrorMessages : listError' = message
    /\ listCalls' = listCalls + 1
    /\ pc' = "while"
    /\ UNCHANGED <<bucket, directoriesQueue, visitedDirectories, totalBytes, totalObjects,
                   currentDirectory, offset, bucketUsage, res, processed, enqueued, counted,
                   previousUsage, uploaded>>
    /\ UNCHANGED <<estVars, projVars, routeVars, adminVars>>

\* line 312-314 and the route's catch, line 927-935: list() answers with an error
ListError ==
    /\ pc = "list"
    /\ \E message \in ErrorMessages :
         /\ listError' = message
         /\ res' = jsonError(500, "No se pudo calcular uso del bucket de fotos.", message)
    /\ listCalls' = listCalls + 1
    /\ pc' = "failed"
    /\ UNCHANGED <<bucket, directoriesQueue, visitedDirectories, totalBytes, totalObjects,
                   currentDirectory, offset, bucketUsage, processed, enqueued, counted,
                   previousUsage, uploaded>>
    /\ UNCHANGED <<estVars, projVars, routeVars, adminVars>>

\* line 360-363 and line 926: the queue is empty, the walk returns its totals
Return ==
    /\ pc = "while"
    /\ directoriesQueue = << >>
    /\ bucketUsage' = Usage(totalBytes, totalObjects)
    /\ pc' = "scanned"
    /\ UNCHANGED <<bucket, directoriesQueue, visitedDirectories, totalBytes, totalObjects,
                   currentDirectory, offset, res, listCalls, listError, processed,
                   enqueued, counted, previousUsage, uploaded>>
    /\ UNCHANGED <<estVars, projVars, routeVars, adminVars>>

(***************************************************************************)
(* The environment: a file is stored in the bucket between two requests,   *)
(* and the route is requested again.                                       *)
(***************************************************************************)
\* entries that are files with a name, not the placeholder, and a numeric size
UploadShapes ==
    {i \in Shapes :
        LET item == Catalogue[i]
        IN /\ item.name.k = "string"
           /\ item.name.s \notin {"", ".emptyFolderPlaceholder"}
           /\ item.metadata.present
           /\ \/ item.metadata.size.k = "number"
              \/ item.metadata.size.k = "undefined" /\ item.metadata.contentLength.k = "number"}

\* the size the stored file reports
DeclaredSize(item) ==
    IF item.metadata.size.k = "number" THEN item.metadata.size.n
    ELSE item.metadata.contentLength.n

\* the listing with entry i stored after its first `at` entries
InsertAt(listing, at, i) ==
    SubSeq(listing, 1, at) \o <<i>> \o SubSeq(listing, at + 1, Len(listing))

Upload ==
    /\ pc = "scanned"
    /\ ~previousUsage.set
    /\ ~uploaded.set
    /\ \E dir \in visitedDirectories, i \in UploadShapes :
       \E at \in 0..Len(bucket[dir]) :
         /\ bucket' = [bucket EXCEPT ![dir] = InsertAt(@, at, i)]
         /\ uploaded' = [set |-> TRUE, dir |-> dir, size |-> DeclaredSize(Catalogue[i])]
    /\ UNCHANGED <<directoriesQueue, visitedDirectories, totalBytes, totalObjects,
                   currentDirectory, offset, pc, bucketUsage, res, listCalls, listError,
                   processed, enqueued, counted, previousUsage>>
    /\ UNCHANGED <<estVars, projVars, routeVars, adminVars>>

StartScanKeepingTotals ==
    /\ directoriesQueue' = <<"">>
    /\ visitedDirectories' = {}
    /\ totalBytes' = totalBytes
    /\ totalObjects' = totalObjects
    /\ currentDirectory' = ""
    /\ offset' = 0
    /\ pc' = "while"

\* line 287-291: a request starts the walk
StartScan ==
    /\ directoriesQueue' = <<"">>
    /\ visitedDirectories' = {}
    /\ totalBytes' = 0
    /\ totalObjects' = 0
    /\ currentDirectory' = ""
    /\ offset' = 0
    /\ pc' = "while"

Request ==
    /\ pc = "scanned"
    /\ ~previousUsage.set
    /\ previousUsage' = bucketUsage
    /\ StartScan
    /\ bucketUsage' = NoUsage
    /\ res' = NoResponse
    /\ listCalls' = 0
    /\ listError' = Undefined
    /\ processed' = << >>
    /\ enqueued' = ("" :> 1)
    /\ counted' = << >>
    /\ UNCHANGED <<bucket, uploaded>>
    /\ UNCHANGED <<estVars, projVars, routeVars, adminVars>>

ScanInit ==
    /\ bucket = << >>
    /\ directoriesQueue = <<"">>
    /\ visitedDirectories = {}
    /\ totalBytes = 0
    /\ totalObjects = 0
    /\ currentDirectory = ""
    /\ offset = 0
    /\ pc = "while"
    /\ bucketUsage = NoUsage
    /\ res = NoResponse
    /\ listCalls = 0
    /\ listError = Undefined
    /\ processed = << >>
    /\ enqueued = ("" :> 1)
    /\ counted = << >>
    /\ previousUsage = NoUsage
    /\ uploaded = NoUpload

(***************************************************************************)
(* estimateDatabaseUsageFromActivaciones(adminSupabase, options)           *)
(*                                                                         *)
(* overheadFactor is a decimal fraction; the model writes it in hundredths *)
(* (1.34 is Hundredths(134)) and computes with exact fractions.  A usage   *)
(* percent, rounded to two decimals by toFixed(2), is written in           *)
(* hundredths of a percent as well.                                        *)
(***************************************************************************)
Hundredths(n) == [k |-> "number", n |-> n, s |-> "/100"]

\* a destructured option with a default: the default replaces undefined only
Default(v, d) == IF v.k = "undefined" THEN d ELSE v

\* a || b, for a number a
OrElse(a, b) == IF a.k = "NaN" \/ (a.k = "number" /\ a.n = 0) THEN b ELSE a

MathMax(a, b) == IF a >= b THEN a ELSE b
MathMin(a, b) == IF a <= b THEN a ELSE b

\* Math.round(n / d) for d > 0: halves round up
RoundDiv(n, d) == (2 * n + d) \div (2 * d)

CeilDiv(n, d) == (n + d - 1) \div d

\* Math.floor(n / d) for d > 0
FloorDiv(n, d) == n \div d

\* Number(((used / limit) * 100).toFixed(2)), in hundredths of a percent
Percent(used, limit) ==
    IF limit % 10000 = 0 THEN RoundDiv(used, limit \div 10000)
    ELSE RoundDiv(used * 10000, limit)

\* the rows of activaciones: the byte length of JSON.stringify(row), or a row
\* that JSON.stringify cannot serialize
Row(bytes) == [bytes |-> bytes, serializable |-> TRUE]
BadRow == [bytes |-> 0, serializable |-> FALSE]
RowShapes == {Row(5), Row(1000), BadRow}

\* most rows the table holds
MaxRows == 2

Tables == UNION {[1..k -> RowShapes] : k \in 0..MaxRows}

EstArgs(count, limit, sampleLimit, factor) ==
    [activacionesCount |-> count, databaseLimitBytes |-> limit,
     sampleLimit |-> sampleLimit, overheadFactor |-> factor]

Counts == {Undefined, JsNull, NaN, Num(-1), Num(0), Num(3), Num(500)}
ByteLimits == {Undefined, JsNull, Num(0), Num(10000), Num(500000000)}
SampleLimits == {Undefined, JsNull, Num(-1), Num(0), Num(10), Num(300), Num(1000)}
OverheadFactors == {Undefined, Hundredths(100), Hundredths(134), Hundredths(135),
                    Hundredths(200)}

NoEstimate ==
    [set |-> FALSE,
     sample_size |-> JsNull,
     overhead_factor |-> JsNull,
     per_activation_estimated_bytes |-> JsNull,
     estimated_database_used_bytes |-> JsNull,
     estimated_database_remaining_bytes |-> JsNull,
     estimated_database_usage_percent |-> JsNull,
     estimated_activaciones_capacity_total |-> JsNull,
     estimated_activaciones_capacity_remaining |-> JsNull]

NoPrevious == [set |-> FALSE, args |-> EstArgs(Undefined, Undefined, Undefined, Undefined),
               return |-> NoEstimate]

\* line 369-375: the defaults of the options and Number(activacionesCount)
activacionesCountOf(args) == Default(args.activacionesCount, Num(0))
databaseLimitBytesOf(args) == Default(args.databaseLimitBytes, JsNull)
sampleLimitOf(args) == Default(args.sampleLimit, Num(240))
overheadFactorOf(args) == Default(args.overheadFactor, Hundredths(134))
normalizedCount(args) == Number(activacionesCountOf(args))

ShortCircuitsBelowZero(count) == ~IsFinite(count) \/ count.n < 0

ShortCircuitsNever(count) == FALSE

\* if (!Number.isFinite(normalizedCount) || normalizedCount <= 0)
ShortCircuits(count) == ~IsFinite(count) \/ count.n <= 0

\* line 377-387: the value returned when there is nothing to count
EstimateOfNoRows(overheadFactor, databaseLimitBytes) ==
    [set |-> TRUE,
     sample_size |-> Num(0),
     overhead_factor |-> overheadFactor,
     per_activation_estimated_bytes |-> Num(0),
     estimated_database_used_bytes |-> Num(0),
     estimated_database_remaining_bytes |->
        IF IsNullish(databaseLimitBytes) THEN JsNull
        ELSE Num(MathMax(0, databaseLimitBytes.n)),
     estimated_database_usage_percent |->
        IF IsNullish(databaseLimitBytes) THEN JsNull ELSE Num(0),
     estimated_activaciones_capacity_total |-> JsNull,
     estimated_activaciones_capacity_remaining |-> JsNull]

EstimateOfEmptySampleOneByte(overheadFactor, databaseLimitBytes) ==
    [set |-> TRUE,
     sample_size |-> Num(0),
     overhead_factor |-> overheadFactor,
     per_activation_estimated_bytes |-> Num(1),
     estimated_database_used_bytes |-> Num(0),
     estimated_database_remaining_bytes |->
        IF IsNullish(databaseLimitBytes) THEN JsNull
        ELSE Num(MathMax(0, databaseLimitBytes.n)),
     estimated_database_usage_percent |->
        IF IsNullish(databaseLimitBytes) THEN JsNull ELSE Num(0),
     estimated_activaciones_capacity_total |-> JsNull,
     estimated_activaciones_capacity_remaining |-> JsNull]

\* line 403-413: the value returned when the sample is empty
EstimateOfEmptySample(overheadFactor, databaseLimitBytes) ==
    [set |-> TRUE,
     sample_size |-> Num(0),
     overhead_factor |-> overheadFactor,
     per_activation_estimated_bytes |-> Num(0),
     estimated_database_used_bytes |-> Num(0),
     estimated_database_remaining_bytes |->
        IF IsNullish(databaseLimitBytes) THEN JsNull
        ELSE Num(MathMax(0, databaseLimitBytes.n)),
     estimated_database_usage_percent |->
        IF IsNullish(databaseLimitBytes) THEN JsNull ELSE Num(0),
     estimated_activaciones_capacity_total |-> JsNull,
     estimated_activaciones_capacity_remaining |-> JsNull]

\* const safeSampleLimit = Math.max(40, Math.min(500, Number(sampleLimit) || 240))
safeSampleLimit(sampleLimit) ==
    MathMax(40, MathMin(500, OrElse(Number(sampleLimit), Num(240)).n))

\* .from('activaciones').select('*').order(...).limit(n): the rows it answers with
SelectRows(rows, n) == SubSeq(rows, 1, MathMin(n, Len(rows)))

\* line 416-422: rows.reduce over Buffer.byteLength(JSON.stringify(row))
RECURSIVE totalJsonPayloadBytes(_)
totalJsonPayloadBytes(rows) ==
    IF rows = << >> THEN 0
    ELSE (IF Head(rows).serializable THEN Head(rows).bytes ELSE 0)
         + totalJsonPayloadBytes(Tail(rows))

perActivationDividesByFactor(totalBytes_, sampleSize, overheadFactor) ==
    MathMax(1, RoundDiv(totalBytes_ * 100, sampleSize * MathMax(1, overheadFactor.n)))

\* line 424-425: Math.max(1, Math.round((total / rows.length) * overheadFactor))
perActivationEstimatedBytes(totalBytes_, sampleSize, overheadFactor) ==
    MathMax(1, RoundDiv(totalBytes_ * overheadFactor.n, sampleSize * 100))

estimatedDatabaseUsedBytesOfOneRow(perActivation, count) == perActivation

\* line 426: Math.round(perActivationEstimatedBytes * normalizedCount)
estimatedDatabaseUsedBytes(perActivation, count) == perActivation * count

\* line 416-453: the value returned for a sample that holds rows
EstimateOfSample(rows, count, overheadFactor, databaseLimitBytes) ==
    LET perActivation ==
            perActivationEstimatedBytes(totalJsonPayloadBytes(rows), Len(rows),
                                        overheadFactor)
        used == estimatedDatabaseUsedBytes(perActivation, count.n)
        noLimit == IsNullish(databaseLimitBytes)
        noCapacity == noLimit \/ databaseLimitBytes.n <= 0
        capacityTotal ==
            IF noCapacity THEN JsNull
            ELSE Num(MathMax(0, FloorDiv(databaseLimitBytes.n, perActivation)))
    IN [set |-> TRUE,
        sample_size |-> Num(Len(rows)),
        overhead_factor |-> overheadFactor,
        per_activation_estimated_bytes |-> Num(perActivation),
        estimated_database_used_bytes |-> Num(used),
        estimated_database_remaining_bytes |->
            IF noLimit THEN JsNull ELSE Num(MathMax(0, databaseLimitBytes.n - used)),
        estimated_database_usage_percent |->
            IF noCapacity THEN JsNull ELSE Num(Percent(used, databaseLimitBytes.n)),
        estimated_activaciones_capacity_total |-> capacityTotal,
        estimated_activaciones_capacity_remaining |->
            IF capacityTotal = JsNull THEN JsNull
            ELSE Num(MathMax(0, capacityTotal.n - count.n))]

\* line 375-388: the call, up to its first await
EstimateCall ==
    /\ estPc = "call"
    /\ IF ShortCircuits(normalizedCount(estArgs))
       THEN /\ estReturn' = EstimateOfNoRows(overheadFactorOf(estArgs),
                                             databaseLimitBytesOf(estArgs))
            /\ estPc' = "returned"
       ELSE /\ estPc' = "select"
            /\ UNCHANGED estReturn
    /\ UNCHANGED <<table, estArgs, estError, estReads, estPrevious>>
    /\ UNCHANGED <<scanVars, projVars, routeVars, adminVars>>

\* line 390-399: the read of the table answers with an error
EstimateSelectError ==
    /\ estPc = "select"
    /\ estReads' = Append(estReads, safeSampleLimit(sampleLimitOf(estArgs)))
    /\ \E message \in ErrorMessages : estError' = message
    /\ estPc' = "thrown"
    /\ UNCHANGED <<table, estArgs, estReturn, estPrevious>>
    /\ UNCHANGED <<scanVars, projVars, routeVars, adminVars>>

\* line 390-453: the read of the table answers with rows, or with no data
EstimateSelect ==
    /\ estPc = "select"
    /\ estReads' = Append(estReads, safeSampleLimit(sampleLimitOf(estArgs)))
    /\ \E rows \in {<< >>, SelectRows(table, safeSampleLimit(sampleLimitOf(estArgs)))} :
         estReturn' =
            IF rows = << >>
            THEN EstimateOfEmptySample(overheadFactorOf(estArgs),
                                       databaseLimitBytesOf(estArgs))
            ELSE EstimateOfSample(rows, normalizedCount(estArgs),
                                  overheadFactorOf(estArgs),
                                  databaseLimitBytesOf(estArgs))
    /\ estPc' = "returned"
    /\ UNCHANGED <<table, estArgs, estError, estPrevious>>
    /\ UNCHANGED <<scanVars, projVars, routeVars, adminVars>>

\* the estimator is called once more, on the same table, with a larger overheadFactor
EstimateAgain ==
    /\ estPc = "returned"
    /\ ~estPrevious.set
    /\ \E factor \in OverheadFactors \ {Undefined} :
         /\ factor.n > overheadFactorOf(estArgs).n
         /\ estArgs' = [estArgs EXCEPT !.overheadFactor = factor]
    /\ estPrevious' = [set |-> TRUE, args |-> estArgs, return |-> estReturn]
    /\ estPc' = "call"
    /\ estReturn' = NoEstimate
    /\ estReads' = << >>
    /\ UNCHANGED <<table, estError>>
    /\ UNCHANGED <<scanVars, projVars, routeVars, adminVars>>

EstIdle ==
    /\ table = << >>
    /\ estArgs = EstArgs(Undefined, Undefined, Undefined, Undefined)
    /\ estPc = "idle"
    /\ estReturn = NoEstimate
    /\ estError = Undefined
    /\ estReads = << >>
    /\ estPrevious = NoPrevious

EstInit ==
    /\ table \in Tables
    /\ estArgs \in {EstArgs(c, l, s, f) :
                      c \in Counts, l \in ByteLimits, s \in SampleLimits,
                      f \in OverheadFactors}
    /\ estPc = "call"
    /\ estReturn = NoEstimate
    /\ estError = Undefined
    /\ estReads = << >>
    /\ estPrevious = NoPrevious

(***************************************************************************)
(* estimateCombinedActivationCapacity(options)                             *)
(***************************************************************************)
ProjArgs(count, withPhoto, objects, used, storageRemaining, databaseRemaining, perActivation) ==
    [activacionesCount |-> count,
     activacionesWithPhotoCount |-> withPhoto,
     storageObjectsCount |-> objects,
     storageUsedBytes |-> used,
     storageRemainingBytes |-> storageRemaining,
     databaseRemainingBytes |-> databaseRemaining,
     perActivationDatabaseBytes |-> perActivation]

UnitCounts == {JsNull, Num(-3), Num(0), Num(4), Num(10), Infinity}
ObjectCounts == {JsNull, Num(0), Num(5)}
UsedBytes == {JsNull, Undefined, NaN, Infinity, Num(0), Num(1000)}
StorageRemainingBytes == {JsNull, NaN, Str("x"), Num(0), Num(25000)}
DatabaseRemainingBytes == {JsNull, NaN, Num(-5), Num(25000), Num(100000)}
PerActivationBytes == {JsNull, Num(-5), Num(0), Num(250)}

NoProjection ==
    [set |-> FALSE,
     activaciones_with_photo_count |-> Num(0),
     photo_coverage_percent |-> JsNull,
     sample_photos_count |-> Num(0),
     average_photo_bytes |-> JsNull,
     per_activation_database_estimated_bytes |-> JsNull,
     per_activation_total_estimated_bytes |-> JsNull,
     estimated_activaciones_with_photo_total |-> JsNull,
     estimated_activaciones_with_photo_remaining |-> JsNull,
     estimated_remaining_by_database |-> JsNull,
     estimated_remaining_by_storage |-> JsNull,
     limiting_factor |-> JsNull,
     unavailable_reason |-> JsNull]

\* Math.max(0, Number(value) || 0), line 465-467
normalizedCountOf(value) ==
    LET number == OrElse(Number(Default(value, Num(0))), Num(0))
    IN IF number.k = "Infinity" THEN Infinity ELSE Num(MathMax(0, number.n))

\* count > 0, for a normalized count
IsPositive(count) == count.k = "Infinity" \/ count.n > 0

\* Number.isFinite(Number(value)) ? Math.max(0, Number(value)) : null, line 468-476
normalizedBytesOf(value) ==
    LET number == Number(Default(value, JsNull))
    IN IF IsFinite(number) THEN Num(MathMax(0, number.n)) ELSE JsNull

\* line 477-480
normalizedPerActivationDatabaseBytes(value) ==
    LET number == Number(Default(value, JsNull))
    IN IF IsFinite(number) /\ number.n > 0 THEN Num(number.n) ELSE JsNull

photoSampleCountAtLeastOne(withPhoto, objects) ==
    IF IsPositive(withPhoto) THEN withPhoto
    ELSE IF IsPositive(objects) THEN objects ELSE Num(1)

\* line 482-487
photoSampleCount(withPhoto, objects) ==
    IF IsPositive(withPhoto) THEN withPhoto
    ELSE IF IsPositive(objects) THEN objects ELSE Num(0)

\* line 489-492
averagePhotoBytes(used, sampleCount) ==
    IF used # JsNull /\ IsPositive(sampleCount)
    THEN (IF sampleCount.k = "Infinity" THEN Num(1)
          ELSE Num(MathMax(1, RoundDiv(used.n, sampleCount.n))))
    ELSE JsNull

\* line 533-542: Number(((Math.min(withPhoto, count) / count) * 100).toFixed(2)),
\* in hundredths of a percent
photoCoveragePercent(withPhoto, count) ==
    IF ~IsPositive(count) THEN JsNull
    ELSE IF count.k = "Infinity"
         THEN (IF withPhoto.k = "Infinity" THEN NaN ELSE Num(0))
         ELSE IF withPhoto.k = "Infinity" THEN Num(10000)
              ELSE Num(RoundDiv(MathMin(withPhoto.n, count.n) * 10000, count.n))

\* line 527-528: Math.max(count, count + estimatedRemaining)
estimatedTotal(count, remaining) ==
    IF remaining = JsNull THEN JsNull
    ELSE IF count.k = "Infinity" THEN Infinity
         ELSE Num(MathMax(count.n, count.n + remaining.n))

\* line 494-501: Math.max(0, Math.floor(remaining / perUnit)) when both are there
remainingBy(remaining, perUnit) ==
    IF remaining # JsNull /\ perUnit # JsNull
    THEN Num(MathMax(0, FloorDiv(remaining.n, perUnit.n)))
    ELSE JsNull

estimatedRemainingOfLarger(byDatabase, byStorage) ==
    IF byDatabase # JsNull /\ byStorage # JsNull
    THEN Num(MathMax(byDatabase.n, byStorage.n))
    ELSE Coalesce(byDatabase, byStorage)

\* line 503-506
estimatedRemaining(byDatabase, byStorage) ==
    IF byDatabase # JsNull /\ byStorage # JsNull
    THEN Num(MathMin(byDatabase.n, byStorage.n))
    ELSE Coalesce(byDatabase, byStorage)

limitingFactorTieToDatabase(byDatabase, byStorage) ==
    IF byDatabase # JsNull /\ byStorage # JsNull
    THEN (IF byStorage.n < byDatabase.n THEN Str("storage") ELSE Str("database"))
    ELSE IF byStorage # JsNull THEN Str("storage")
         ELSE IF byDatabase # JsNull THEN Str("database")
              ELSE JsNull

\* line 508-517
limitingFactor(byDatabase, byStorage) ==
    IF byDatabase # JsNull /\ byStorage # JsNull
    THEN (IF byStorage.n <= byDatabase.n THEN Str("storage") ELSE Str("database"))
    ELSE IF byStorage # JsNull THEN Str("storage")
         ELSE IF byDatabase # JsNull THEN Str("database")
              ELSE JsNull

unavailableReasonOfAverage(average, perActivation) ==
    IF average = JsNull THEN Str("Sin muestra de fotos para calcular promedio.") ELSE JsNull

\* line 519-525 and 557
unavailableReason(average, perActivation) ==
    CASE average = JsNull /\ perActivation = JsNull ->
            Str("Sin muestra de fotos para calcular promedio. Sin muestra suficiente para calcular peso de activacion en base de datos.")
      [] average = JsNull /\ perActivation # JsNull ->
            Str("Sin muestra de fotos para calcular promedio.")
      [] average # JsNull /\ perActivation = JsNull ->
            Str("Sin muestra suficiente para calcular peso de activacion en base de datos.")
      [] OTHER -> JsNull

\* line 456-559
estimateCombinedActivationCapacity(args) ==
    LET count == normalizedCountOf(args.activacionesCount)
        withPhoto == normalizedCountOf(args.activacionesWithPhotoCount)
        objects == normalizedCountOf(args.storageObjectsCount)
        used == normalizedBytesOf(args.storageUsedBytes)
        storageRemaining == normalizedBytesOf(args.storageRemainingBytes)
        databaseRemaining == normalizedBytesOf(args.databaseRemainingBytes)
        perActivation == normalizedPerActivationDatabaseBytes(args.perActivationDatabaseBytes)
        sampleCount == photoSampleCount(withPhoto, objects)
        average == averagePhotoBytes(used, sampleCount)
        byDatabase == remainingBy(databaseRemaining, perActivation)
        byStorage == remainingBy(storageRemaining, average)
        remaining == estimatedRemaining(byDatabase, byStorage)
    IN [set |-> TRUE,
        activaciones_with_photo_count |-> withPhoto,
        photo_coverage_percent |-> photoCoveragePercent(withPhoto, count),
        sample_photos_count |-> sampleCount,
        average_photo_bytes |-> average,
        per_activation_database_estimated_bytes |-> perActivation,
        per_activation_total_estimated_bytes |->
            IF perActivation # JsNull /\ average # JsNull
            THEN Num(perActivation.n + average.n) ELSE JsNull,
        estimated_activaciones_with_photo_total |-> estimatedTotal(count, remaining),
        estimated_activaciones_with_photo_remaining |-> remaining,
        estimated_remaining_by_database |-> byDatabase,
        estimated_remaining_by_storage |-> byStorage,
        limiting_factor |-> limitingFactor(byDatabase, byStorage),
        unavailable_reason |-> unavailableReason(average, perActivation)]

\* the projector is called with projArgs and returns
Project ==
    /\ ~projReturn.set
    /\ projArgs # JsNull
    /\ projReturn' = estimateCombinedActivationCapacity(projArgs)
    /\ UNCHANGED projArgs
    /\ UNCHANGED <<scanVars, estVars, routeVars, adminVars>>

ProjIdle ==
    /\ projArgs = JsNull
    /\ projReturn = NoProjection

ProjInit ==
    /\ projArgs \in {ProjArgs(c, w, o, u, sr, dr, pa) :
                       c \in UnitCounts, w \in UnitCounts, o \in ObjectCounts,
                       u \in UsedBytes, sr \in StorageRemainingBytes,
                       dr \in DatabaseRemainingBytes, pa \in PerActivationBytes}
    /\ projReturn = NoProjection

(***************************************************************************)
(* POST /admin/users                                                       *)
(*                                                                         *)
(* Auth and the record store answer a call with {data, error}.  Auth holds *)
(* a set of user ids and gives a created user an id it does not hold.      *)
(***************************************************************************)
MaxUsers == 2

UserIds == 1..MaxUsers

\* String.prototype.toLowerCase on the strings the model uses
ToLowerCase(s) ==
    CASE s = "A@b.co" -> "a@b.co"
      [] OTHER -> s

\* string.length of the passwords the model uses
StringLength(s) ==
    CASE s = "" -> 0
      [] s = "12345" -> 5
      [] OTHER -> 6

\* line 35-38
normalizeNullableText(value) ==
    IF normalizeText(value) = "" THEN JsNull ELSE Str(normalizeText(value))

\* line 40-42
normalizeEmail(value) == ToLowerCase(normalizeText(value))

\* line 5: /^[^\s@]+@[^\s@]+\.[^\s@]+$/ on the strings the model uses
EMAIL_REGEX(s) == s \in {"a@b.co", "A@b.co", "c@d.co"}

\* line 44-46
isValidEmail(value) == EMAIL_REGEX(normalizeEmail(value))

Emails == {Undefined, Str(" "), Str("bad"), Str("A@b.co"), Str("c@d.co")}
Passwords == {Undefined, Num(123456), Str("12345"), Str("secret")}
Nombres == {Undefined, Str(" "), Str("Ana")}
Plazas == {Undefined, Str(" "), Str("Norte")}

\* req.body; a request without a body reads every field as undefined
Bodies == [email : Emails, password : Passwords, nombre : Nombres, plaza : Plazas]

NoBody == [email |-> Undefined, password |-> Undefined, nombre |-> Undefined,
           plaza |-> Undefined]

NoInsertedUser == [usuario_id |-> 0, email |-> "", nombre |-> "", plaza |-> JsNull]

\* the messages Auth and the record store answer an error with
AuthErrors == {"User already registered"}
InsertErrors == {"duplicate key value"}
DeleteUserErrors == {"Database error deleting user"}

\* a call of this request: its name and the user id it is about
UserCall(name, id) == [name |-> name, id |-> id]

\* line 669
passwordOf(body) == IF body.password.k = "string" THEN body.password.s ELSE ""

\* line 663-686: the request arrives and its body is validated
PostUsers ==
    /\ userPc \in {"idle", "done"}
    /\ \E body \in Bodies :
         LET email == normalizeEmail(body.email)
             password == passwordOf(body)
             nombre == normalizeText(body.nombre)
         IN /\ userBody' = body
            /\ IF email = "" \/ password = "" \/ nombre = ""
               THEN /\ userRes' = jsonError(400, "email, password y nombre son obligatorios.",
                                            Undefined)
                    /\ userPc' = "done"
               ELSE IF ~isValidEmail(Str(email))
               THEN /\ userRes' = jsonError(400, "email invalido.", Undefined)
                    /\ userPc' = "done"
               ELSE IF StringLength(password) < 6
               THEN /\ userRes' = jsonError(400,
                                     "La contrasena debe tener al menos 6 caracteres.",
                                     Undefined)
                    /\ userPc' = "done"
               ELSE /\ userRes' = NoResponse
                    /\ userPc' = "createUser"
    /\ created' = JsNull
    /\ insertedUser' = NoInsertedUser
    /\ insertErr' = JsNull
    /\ userCalls' = << >>
    /\ UNCHANGED <<authUsers, activadores>>
    /\ UNCHANGED <<scanVars, estVars, projVars, routeVars, deleteVars, confirmVars>>

\* the ids Auth can give a new user
FreshIds == {id \in UserIds : id \notin authUsers
                               /\ \A row \in activadores : row.usuario_id # id}

\* line 688-705: auth.admin.createUser answers
CreateUserAnswer ==
    /\ userPc = "createUser"
    /\ \/ \E message \in AuthErrors :
            /\ userRes' = jsonError(400, message, Undefined)
            /\ userPc' = "done"
            /\ userCalls' = Append(userCalls, UserCall("createUser", 0))
            /\ UNCHANGED <<authUsers, created, insertedUser>>
       \/ /\ userRes' = jsonError(400, "No se pudo crear el usuario en Auth.", Undefined)
          /\ userPc' = "done"
          /\ userCalls' = Append(userCalls, UserCall("createUser", 0))
          /\ UNCHANGED <<authUsers, created, insertedUser>>
       \/ \E id \in FreshIds :
            /\ authUsers' = authUsers \cup {id}
            /\ created' = Num(id)
            /\ insertedUser' = [usuario_id |-> id,
                                email |-> normalizeEmail(userBody.email),
                                nombre |-> normalizeText(userBody.nombre),
                                plaza |-> normalizeNullableText(userBody.plaza)]
            /\ userCalls' = Append(userCalls, UserCall("createUser", id))
            /\ userPc' = "insert"
            /\ UNCHANGED userRes
    /\ UNCHANGED <<activadores, userBody, insertErr>>
    /\ UNCHANGED <<scanVars, estVars, projVars, routeVars, deleteVars, confirmVars>>

\* line 707-709 and 720: from('activadores').insert answers
InsertAnswer ==
    /\ userPc = "insert"
    /\ userCalls' = Append(userCalls, UserCall("insert", created.n))
    /\ \/ /\ activadores' = activadores \cup {insertedUser}
          /\ userRes' = [status |-> 201, error |-> "", details |-> Undefined]
          /\ userPc' = "done"
          /\ UNCHANGED insertErr
       \/ \E message \in InsertErrors :
            /\ insertErr' = Str(message)
            /\ userPc' = "deleteUser"
            /\ UNCHANGED <<activadores, userRes>>
    /\ UNCHANGED <<authUsers, userBody, created, insertedUser>>
    /\ UNCHANGED <<scanVars, estVars, projVars, routeVars, deleteVars, confirmVars>>

\* line 710-717: auth.admin.deleteUser answers; the answer is not read
DeleteUserAnswer ==
    /\ userPc = "deleteUser"
    /\ userCalls' = Append(userCalls, UserCall("deleteUser", created.n))
    /\ \/ authUsers' = authUsers \ {created.n}
       \/ \E message \in DeleteUserErrors : UNCHANGED authUsers
    /\ userRes' = jsonError(500,
                    "No se pudo guardar el usuario en activadores. Se revirtio la creacion en Auth automaticamente.",
                    insertErr)
    /\ userPc' = "done"
    /\ UNCHANGED <<activadores, userBody, created, insertedUser, insertErr>>
    /\ UNCHANGED <<scanVars, estVars, projVars, routeVars, deleteVars, confirmVars>>

UsersIdle ==
    /\ authUsers = {}
    /\ activadores = {}
    /\ userPc = "idle"
    /\ userBody = NoBody
    /\ created = JsNull
    /\ insertedUser = NoInsertedUser
    /\ insertErr = JsNull
    /\ userRes = NoResponse
    /\ userCalls = << >>

UsersNext ==
    \/ PostUsers
    \/ CreateUserAnswer
    \/ InsertAnswer
    \/ DeleteUserAnswer

(***************************************************************************)
(* DELETE /admin/activaciones/:activacionId                                *)
(*                                                                         *)
(* Several requests of the route are in flight at once; each await is a    *)
(* point where another request can act on the table.                       *)
(***************************************************************************)
MaxRequests == 2

DeleteRequests == 1..MaxRequests

\* line 566: resolveActivacionesBucket without ADMIN_STORAGE_BUCKET_ACTIVACIONES
activacionesBucket == "fotos-activaciones"

PublicUrl == "https://x.supabase.co/storage/v1/object/public/fotos-activaciones/a.jpg"
BucketPath == "fotos-activaciones/b.jpg"
OtherBucketUrl == "https://x.supabase.co/storage/v1/object/public/otro/c.jpg"

\* line 225-285, on the foto_url values the model uses
resolveStorageObjectPathFromFotoUrl(fotoUrl, bucketName) ==
    CASE normalizeText(fotoUrl) = "" -> JsNull
      [] normalizeText(fotoUrl) = PublicUrl /\ bucketName = "fotos-activaciones" -> Str("a.jpg")
      [] normalizeText(fotoUrl) = BucketPath /\ bucketName = "fotos-activaciones" -> Str("b.jpg")
      [] normalizeText(fotoUrl) = OtherBucketUrl -> JsNull
      [] OTHER -> Str(normalizeText(fotoUrl))

Activacion(id, fotoUrl) == [id |-> id, foto_url |-> fotoUrl]

NoActivacion == Activacion("", JsNull)

\* the tables the route is requested on
ActivacionTables ==
    {{Activacion("1", Str(PublicUrl))},
     {Activacion("1", Str(PublicUrl)), Activacion("2", JsNull)},
     {Activacion("1", Str(BucketPath)), Activacion("2", Str(OtherBucketUrl))},
     {Activacion("1", Str(" ")), Activacion("2", Str(PublicUrl))}}

\* the objects of the photo bucket
AllPhotos == {"a.jpg", "b.jpg"}

\* req.params.activacionId
ActivacionParams == {Str(" "), Str("1"), Str("2"), Str("9")}

DeleteErrors == {"connection reset"}

\* line 1093-1101
PhotoDelete(path) ==
    [attempted |-> path # JsNull,
     ok |-> TRUE,
     object_path |-> path,
     message |-> IF path # JsNull THEN "Foto eliminada correctamente."
                 ELSE "La activacion no tenia foto asociada."]

NoPhotoDelete == [attempted |-> FALSE, ok |-> FALSE, object_path |-> JsNull, message |-> ""]

NoDeleteResponse ==
    [status |-> 0, error |-> "", details |-> Undefined, ok |-> FALSE, warning |-> "",
     deleted_activation |-> FALSE, photoDelete |-> NoPhotoDelete]

\* jsonError(res, statusCode, message, details)
DeleteFailed(statusCode, message, details) ==
    [NoDeleteResponse EXCEPT !.status = statusCode, !.error = message,
                             !.details = jsonError(statusCode, message, details).details]

\* line 1114-1129: res.json of the two successful answers
DeleteSucceeded(photoDelete) ==
    [NoDeleteResponse EXCEPT
        !.status = 200, !.ok = TRUE, !.deleted_activation = TRUE,
        !.photoDelete = photoDelete,
        !.warning = IF photoDelete.ok THEN ""
                    ELSE "La activacion se elimino, pero no fue posible borrar la foto del almacenamiento."]

\* the rows .eq('id', activacionId) matches
RowsOf(id) == {row \in activaciones : row.id = id}

\* line 1049-1053: the request arrives
DeleteActivacion(r) ==
    /\ delPc[r] = "idle"
    /\ \E param \in ActivacionParams :
         /\ activacionId' = [activacionId EXCEPT ![r] = normalizeText(param)]
         /\ IF normalizeText(param) = ""
            THEN /\ delRes' = [delRes EXCEPT ![r] =
                                   DeleteFailed(400, "Parametro activacionId requerido.",
                                                Undefined)]
                 /\ delPc' = [delPc EXCEPT ![r] = "done"]
            ELSE /\ delPc' = [delPc EXCEPT ![r] = "select"]
                 /\ UNCHANGED delRes
    /\ UNCHANGED <<activaciones, photos, existingRow, storageObjectPath, removeLog>>
    /\ UNCHANGED <<scanVars, estVars, projVars, routeVars, userVars, confirmVars>>

\* line 1055-1074: select('id, foto_url').eq('id', activacionId).maybeSingle() answers
ExistingRowAnswer(r) ==
    /\ delPc[r] = "select"
    /\ \/ \E message \in DeleteErrors :
            /\ delRes' = [delRes EXCEPT ![r] =
                              DeleteFailed(500, "No se pudo leer la activacion.", Str(message))]
            /\ delPc' = [delPc EXCEPT ![r] = "done"]
            /\ UNCHANGED <<existingRow, storageObjectPath>>
       \/ /\ RowsOf(activacionId[r]) = {}
          /\ delRes' = [delRes EXCEPT ![r] =
                            DeleteFailed(404, "No se encontro la activacion indicada.",
                                         Undefined)]
          /\ delPc' = [delPc EXCEPT ![r] = "done"]
          /\ UNCHANGED <<existingRow, storageObjectPath>>
       \/ \E row \in RowsOf(activacionId[r]) :
            /\ existingRow' = [existingRow EXCEPT ![r] = row]
            /\ storageObjectPath' =
                 [storageObjectPath EXCEPT ![r] =
                      resolveStorageObjectPathFromFotoUrl(row.foto_url, activacionesBucket)]
            /\ delPc' = [delPc EXCEPT ![r] = "delete"]
            /\ UNCHANGED delRes
    /\ UNCHANGED <<activaciones, photos, activacionId, removeLog>>
    /\ UNCHANGED <<scanVars, estVars, projVars, routeVars, userVars, confirmVars>>

deletedActivationAlways(deletedRows) == TRUE

\* line 1087
deletedActivation(deletedRows) == deletedRows # {}

\* a storage remove call, as it is issued
RemoveCall(r, path, deletedRows, rows) ==
    [request |-> r, path |-> path, reported |-> Cardinality(deletedRows),
     rowPresent |-> \E row \in rows : row.id = activacionId[r]]

\* line 1076-1106: delete().eq('id', activacionId).select('id') answers
DeleteAnswer(r) ==
    /\ delPc[r] = "delete"
    /\ \/ \E message \in DeleteErrors :
            /\ delRes' = [delRes EXCEPT ![r] =
                              DeleteFailed(500, "No se pudo eliminar la activacion.",
                                           Str(message))]
            /\ delPc' = [delPc EXCEPT ![r] = "done"]
            /\ UNCHANGED <<activaciones, removeLog>>
       \/ LET deletedRows == RowsOf(activacionId[r])
              path == storageObjectPath[r]
          IN /\ activaciones' = activaciones \ deletedRows
             /\ IF ~deletedActivation(deletedRows)
                THEN /\ delRes' = [delRes EXCEPT ![r] =
                                       DeleteFailed(404,
                                           "No se encontro la activacion indicada para eliminar.",
                                           Undefined)]
                     /\ delPc' = [delPc EXCEPT ![r] = "done"]
                     /\ UNCHANGED removeLog
                ELSE IF path # JsNull
                THEN /\ removeLog' = Append(removeLog,
                                            RemoveCall(r, path.s, deletedRows, activaciones'))
                     /\ delPc' = [delPc EXCEPT ![r] = "remove"]
                     /\ UNCHANGED delRes
                ELSE /\ delRes' = [delRes EXCEPT ![r] = DeleteSucceeded(PhotoDelete(path))]
                     /\ delPc' = [delPc EXCEPT ![r] = "done"]
                     /\ UNCHANGED removeLog
    /\ UNCHANGED <<photos, activacionId, existingRow, storageObjectPath>>
    /\ UNCHANGED <<scanVars, estVars, projVars, routeVars, userVars, confirmVars>>

\* line 1104-1129: storage.from(activacionesBucket).remove([storageObjectPath]) answers
RemoveAnswer(r) ==
    /\ delPc[r] = "remove"
    /\ LET photoDelete == PhotoDelete(storageObjectPath[r])
       IN \/ \E message \in DeleteErrors :
               /\ delRes' = [delRes EXCEPT ![r] =
                                 DeleteSucceeded([photoDelete EXCEPT !.ok = FALSE,
                                                                     !.message = message])]
               /\ UNCHANGED photos
          \/ /\ delRes' = [delRes EXCEPT ![r] = DeleteSucceeded(photoDelete)]
             /\ photos' = photos \ {storageObjectPath[r].s}
    /\ delPc' = [delPc EXCEPT ![r] = "done"]
    /\ UNCHANGED <<activaciones, activacionId, existingRow, storageObjectPath, removeLog>>
    /\ UNCHANGED <<scanVars, estVars, projVars, routeVars, userVars, confirmVars>>

DeleteRequested ==
    /\ photos = AllPhotos
    /\ delPc = [r \in DeleteRequests |-> "idle"]
    /\ activacionId = [r \in DeleteRequests |-> ""]
    /\ existingRow = [r \in DeleteRequests |-> NoActivacion]
    /\ storageObjectPath = [r \in DeleteRequests |-> JsNull]
    /\ delRes = [r \in DeleteRequests |-> NoDeleteResponse]
    /\ removeLog = << >>

DeleteIdle ==
    /\ activaciones = {}
    /\ DeleteRequested

DeleteInit ==
    /\ activaciones \in ActivacionTables
    /\ DeleteRequested

DeleteNext ==
    \E r \in DeleteRequests :
        \/ DeleteActivacion(r)
        \/ ExistingRowAnswer(r)
        \/ DeleteAnswer(r)
        \/ RemoveAnswer(r)

(***************************************************************************)
(* The confirmation dialog (src/services/feedback.js).                     *)
(*                                                                         *)
(* Both functions run to completion on the one thread of the page; the     *)
(* executor of new Promise runs inside requestConfirmation.  A resolver is *)
(* the index of the promise it resolves, 0 for null.                       *)
(***************************************************************************)
MaxPromises == 3

Bool(b) == [k |-> "boolean", n |-> IF b THEN 1 ELSE 0, s |-> ""]

\* Boolean(value)
ToBoolean(v) ==
    CASE v.k = "boolean" -> v.n = 1
      [] v.k = "number" -> v.n # 0
      [] v.k = "string" -> v.s # ""
      [] v.k = "Infinity" -> TRUE
      [] OTHER -> FALSE

\* String(value || '').trim() || fallback, value defaulting to fallback
TextOr(value, fallback) ==
    LET given == IF value = Undefined THEN Str(fallback) ELSE value
        text == IF given.k = "string" THEN Trim(given.s) ELSE ""
    IN IF text = "" THEN fallback ELSE text

\* line 88-96 and the initial state, line 11-19
resetConfirmationState ==
    [isOpen |-> FALSE, title |-> "", message |-> "", confirmLabel |-> "Confirmar",
     cancelLabel |-> "Cancelar", tone |-> "primary", resolver |-> 0]

PendingPromise == [state |-> "pending", value |-> FALSE, resolveCalls |-> 0, by |-> ""]

\* the resolve function of promise i is called with value by the function by
Resolve(ps, i, value, by) ==
    [ps EXCEPT ![i] =
        IF @.state = "pending"
        THEN [state |-> "fulfilled", value |-> value, resolveCalls |-> 1, by |-> by]
        ELSE [@ EXCEPT !.resolveCalls = @ + 1]]

SupersedeNever(ps, resolver) == ps

\* line 105-107
Supersede(ps, resolver) ==
    IF resolver # 0 THEN Resolve(ps, resolver, FALSE, "requestConfirmation") ELSE ps

ConfirmOptions ==
    [title : {Undefined, Str(" "), Str("Borrar")},
     message : {Undefined, Str("Seguro")},
     confirmLabel : {Undefined, Str("Eliminar")},
     cancelLabel : {Undefined},
     tone : {Undefined, Str("danger"), Str("x")}]

\* line 98-118
requestConfirmation ==
    /\ Len(promises) < MaxPromises
    /\ \E options \in ConfirmOptions :
         /\ promises' = Append(Supersede(promises, confirm.resolver), PendingPromise)
         /\ confirm' =
              [isOpen |-> TRUE,
               title |-> TextOr(options.title, "Confirmar accion"),
               message |-> TextOr(options.message, ""),
               confirmLabel |-> TextOr(options.confirmLabel, "Confirmar"),
               cancelLabel |-> TextOr(options.cancelLabel, "Cancelar"),
               tone |-> IF options.tone = Str("danger") THEN "danger" ELSE "primary",
               resolver |-> Len(promises) + 1]
    /\ lastCall' = "requestConfirmation"
    /\ UNCHANGED <<scanVars, estVars, projVars, routeVars, userVars, deleteVars>>

\* line 120-127
settleConfirmation ==
    /\ \E accepted \in {Undefined, Bool(TRUE), Bool(FALSE)} :
         LET resolver == confirm.resolver
         IN /\ confirm' = resetConfirmationState
            /\ promises' = IF resolver # 0
                           THEN Resolve(promises, resolver, ToBoolean(accepted),
                                        "settleConfirmation")
                           ELSE promises
    /\ lastCall' = "settleConfirmation"
    /\ UNCHANGED <<scanVars, estVars, projVars, routeVars, userVars, deleteVars>>

ConfirmIdle ==
    /\ confirm = resetConfirmationState
    /\ promises = << >>
    /\ lastCall = ""

ConfirmNext ==
    \/ requestConfirmation
    \/ settleConfirmation

AdminIdle == UsersIdle /\ DeleteIdle /\ ConfirmIdle

(***************************************************************************)
(* GET /admin/storage/summary                                              *)
(*                                                                         *)
(* The record store answers a query with {count | data, error}; the model  *)
(* draws the answer when the query is issued.  A second request is made    *)
(* against the same backends: the counts and the size probe answer it as   *)
(* they answered the first.                                                *)
(***************************************************************************)
\* line 567-572: the limits the app was created with, always positive
Configs ==
    {[storageLimitBytes |-> 500, databaseLimitBytes |-> 10000],
     [storageLimitBytes |-> 1000000000, databaseLimitBytes |-> 500000000]}

\* the root listings of the bucket the route is requested on
RouteListings == {<<5, 6, 8>>, <<2, 5, 2>>, <<2, 2, 2>>}

\* the tables the route is requested on
RouteTables == {<< >>, <<Row(5)>>, <<Row(1000), BadRow>>}

\* {count, error} of select('id', {count: 'exact', head: true})
CountAnswer(count, error) == [set |-> TRUE, count |-> count, error |-> error]
NoCountAnswer == [set |-> FALSE, count |-> JsNull, error |-> JsNull]

CountAnswers ==
    {CountAnswer(c, JsNull) : c \in {JsNull, Num(0), Num(3)}}
        \cup {CountAnswer(JsNull, message) : message \in ErrorMessages}

PhotoCountAnswers ==
    {CountAnswer(c, JsNull) : c \in {JsNull, Num(2)}}
        \cup {CountAnswer(JsNull, message) : message \in ErrorMessages}

\* data of rpc('get_database_size_bytes'): a primitive, or an object (an
\* array is one) with the candidate keys it has
NoFields ==
    [get_database_size_bytes |-> Undefined, database_size_bytes |-> Undefined,
     size_bytes |-> Undefined]

Primitive(v) == [value |-> v, fields |-> NoFields]

Object(a, b, c) ==
    [value |-> [k |-> "object", n |-> 0, s |-> ""],
     fields |-> [get_database_size_bytes |-> a, database_size_bytes |-> b,
                 size_bytes |-> c]]

RpcAnswer(data, error) == [set |-> TRUE, data |-> data, error |-> error]
NoRpcAnswer == [set |-> FALSE, data |-> Primitive(JsNull), error |-> JsNull]

RpcData ==
    {Primitive(JsNull), Primitive(Num(650)), Primitive(Num(-5)),
     Primitive(Str("650")), Primitive(Str("-5")), Primitive(Str("x")),
     Object(Undefined, Undefined, Undefined),
     Object(Undefined, JsNull, Num(650)),
     Object(Str("650"), Num(-5), Undefined),
     Object(Undefined, Str("x"), Num(650))}

RpcAnswers ==
    {RpcAnswer(data, JsNull) : data \in RpcData}
        \cup {RpcAnswer(Primitive(JsNull), message) : message \in ErrorMessages}

NoAnswers == [count |-> NoCountAnswer, photo |-> NoCountAnswer, probe |-> NoRpcAnswer]

NoSummary ==
    [set |-> FALSE,
     activaciones_count |-> JsNull,
     activaciones_with_photo_count |-> JsNull,
     storage_objects_count |-> JsNull,
     storage_used_bytes |-> JsNull,
     storage_limit_bytes |-> JsNull,
     storage_remaining_bytes |-> JsNull,
     storage_usage_percent |-> JsNull,
     database_size_bytes |-> JsNull,
     database_used_effective_bytes |-> JsNull,
     database_limit_bytes |-> JsNull,
     database_remaining_bytes |-> JsNull,
     database_usage_percent |-> JsNull,
     database_size_source |-> JsNull,
     database_size_unavailable_reason |-> JsNull,
     database_estimation |-> NoEstimate,
     database_estimation_unavailable_reason |-> JsNull,
     combined_capacity_estimation |-> NoProjection]

\* the outcome of the sample read of the estimator, as far as it was left to
\* the record store
SelectAnswer ==
    [pc |-> estPc, error |-> estError, reads |-> estReads,
     sample_size |-> estReturn.sample_size]

NoPreviousRequest ==
    [set |-> FALSE, answers |-> NoAnswers, listError |-> Undefined, listCalls |-> 0,
     select |-> [pc |-> "idle", error |-> Undefined, reads |-> << >>,
                 sample_size |-> JsNull],
     res |-> NoResponse, summary |-> NoSummary]

\* the answers a query may get: the one the request before got, when it asked
Answering(kind, all) ==
    IF previous.set /\ previous.answers[kind].set THEN {previous.answers[kind]} ELSE all

FailedNever(error) == FALSE

\* if (activacionesCountErr), if (activacionesWithPhotoCountErr)
Failed(error) == error # JsNull

\* res.json(...)
Ok == [status |-> 200, error |-> "", details |-> Undefined]

\* line 898-905: the count of activaciones
CountActivaciones ==
    /\ pc = "count"
    /\ \E answer \in Answering("count", CountAnswers) :
         /\ answers' = [answers EXCEPT !.count = answer]
         /\ IF Failed(answer.error)
            THEN /\ res' = jsonError(500, "No se pudo obtener conteo de activaciones.",
                                     answer.error)
                 /\ pc' = "failed"
                 /\ UNCHANGED activacionesCount
            ELSE /\ activacionesCount' = answer.count
                 /\ pc' = "photoCount"
                 /\ UNCHANGED res
    /\ UNCHANGED <<bucket, directoriesQueue, visitedDirectories, totalBytes, totalObjects,
                   currentDirectory, offset, bucketUsage, listCalls, listError,
                   processed, enqueued, counted, previousUsage, uploaded>>
    /\ UNCHANGED <<config, activacionesWithPhotoCount, databaseSizeBytes,
                   databaseSizeUnavailableReason, estimationUnavailableReason,
                   summary, previous>>
    /\ UNCHANGED <<estVars, projVars, adminVars>>

\* line 907-926: the count of activaciones with a photo, and the call of the walk
CountWithPhoto ==
    /\ pc = "photoCount"
    /\ \E answer \in Answering("photo", PhotoCountAnswers) :
         /\ answers' = [answers EXCEPT !.photo = answer]
         /\ IF Failed(answer.error)
            THEN /\ res' = jsonError(500,
                                     "No se pudo obtener conteo de activaciones con foto.",
                                     answer.error)
                 /\ pc' = "failed"
                 /\ UNCHANGED <<activacionesWithPhotoCount, directoriesQueue,
                                visitedDirectories, totalBytes, totalObjects,
                                currentDirectory, offset>>
            ELSE /\ activacionesWithPhotoCount' = answer.count
                 /\ StartScan
                 /\ UNCHANGED res
    /\ UNCHANGED <<bucket, bucketUsage, listCalls, listError, processed, enqueued,
                   counted, previousUsage, uploaded>>
    /\ UNCHANGED <<config, activacionesCount, databaseSizeBytes,
                   databaseSizeUnavailableReason, estimationUnavailableReason,
                   summary, previous>>
    /\ UNCHANGED <<estVars, projVars, adminVars>>

\* Number.isFinite(parsedSize) && parsedSize >= 0 ? parsedSize : null
ParsedSize(candidate) ==
    LET parsedSize == Number(candidate)
    IN IF IsFinite(parsedSize) /\ parsedSize.n >= 0 THEN parsedSize ELSE JsNull

\* line 944-963: databaseSizeBytes after the probe answered
databaseSizeBytesOf(data, error) ==
    IF error # JsNull THEN JsNull
    ELSE CASE data.value.k = "number" -> data.value
           [] data.value.k = "string" -> ParsedSize(data.value)
           [] data.value.k = "object" ->
                ParsedSize(Coalesce(Coalesce(Coalesce(data.fields.get_database_size_bytes,
                                                      data.fields.database_size_bytes),
                                             data.fields.size_bytes),
                                    JsNull))
           [] OTHER -> JsNull

\* line 944-945: databaseSizeUnavailableReason after the probe answered
databaseSizeUnavailableReasonOf(error) == error

\* line 937-971: the size probe, and the call of the estimator
SizeProbe ==
    /\ pc = "scanned"
    /\ estPc = "idle"
    /\ \E answer \in Answering("probe", RpcAnswers) :
         /\ answers' = [answers EXCEPT !.probe = answer]
         /\ databaseSizeBytes' = databaseSizeBytesOf(answer.data, answer.error)
         /\ databaseSizeUnavailableReason' = databaseSizeUnavailableReasonOf(answer.error)
    /\ estArgs' = EstArgs(Coalesce(activacionesCount, Num(0)),
                          Num(config.databaseLimitBytes), Undefined, Undefined)
    /\ estPc' = "call"
    /\ pc' = "estimate"
    /\ UNCHANGED <<bucket, directoriesQueue, visitedDirectories, totalBytes, totalObjects,
                   currentDirectory, offset, bucketUsage, res, listCalls, listError,
                   processed, enqueued, counted, previousUsage, uploaded>>
    /\ UNCHANGED <<config, activacionesCount, activacionesWithPhotoCount,
                   estimationUnavailableReason, summary, previous>>
    /\ UNCHANGED <<table, estReturn, estError, estReads, estPrevious>>
    /\ UNCHANGED <<projVars, adminVars>>

\* line 983-984
effectiveDatabaseUsedBytes(sizeBytes, estimatedDatabase) ==
    Coalesce(Coalesce(sizeBytes,
                      IF estimatedDatabase.set
                      THEN estimatedDatabase.estimated_database_used_bytes
                      ELSE Undefined),
             JsNull)

\* line 994-999
perActivationDatabaseBytes(estimatedDatabase, count, effective) ==
    IF estimatedDatabase.set /\ estimatedDatabase.per_activation_estimated_bytes.n > 0
    THEN estimatedDatabase.per_activation_estimated_bytes
    ELSE IF Number(Coalesce(count, Num(0))).n > 0 /\ ~IsNullish(effective)
         THEN Num(MathMax(1, RoundDiv(effective.n, Number(Coalesce(count, Num(0))).n)))
         ELSE JsNull

\* line 976-1042: the summary, from the locals of the route
SummaryOf(count, withPhoto, usage, sizeBytes, sizeReason, estimatedDatabase, estimationReason, limits) ==
    LET storageRemainingBytes ==
            Num(MathMax(0, limits.storageLimitBytes - usage.totalBytes))
        effective == effectiveDatabaseUsedBytes(sizeBytes, estimatedDatabase)
        databaseRemainingBytes ==
            IF IsNullish(effective) THEN JsNull
            ELSE Num(MathMax(0, limits.databaseLimitBytes - effective.n))
        perActivation == perActivationDatabaseBytes(estimatedDatabase, count, effective)
    IN [set |-> TRUE,
        activaciones_count |-> Coalesce(count, Num(0)),
        activaciones_with_photo_count |-> Coalesce(withPhoto, Num(0)),
        storage_objects_count |-> Num(usage.totalObjects),
        storage_used_bytes |-> Num(usage.totalBytes),
        storage_limit_bytes |-> Num(limits.storageLimitBytes),
        storage_remaining_bytes |-> storageRemainingBytes,
        storage_usage_percent |->
            Num(Percent(usage.totalBytes, limits.storageLimitBytes)),
        database_size_bytes |-> sizeBytes,
        database_used_effective_bytes |-> effective,
        database_limit_bytes |-> Num(limits.databaseLimitBytes),
        database_remaining_bytes |-> databaseRemainingBytes,
        database_usage_percent |->
            IF IsNullish(effective) THEN JsNull
            ELSE Num(Percent(effective.n, limits.databaseLimitBytes)),
        database_size_source |->
            IF IsNullish(sizeBytes)
            THEN (IF estimatedDatabase.set THEN Str("estimate:activaciones_avg_row")
                  ELSE JsNull)
            ELSE Str("rpc:get_database_size_bytes"),
        database_size_unavailable_reason |->
            IF IsNullish(sizeBytes) THEN sizeReason ELSE JsNull,
        database_estimation |-> estimatedDatabase,
        database_estimation_unavailable_reason |->
            IF ~estimatedDatabase.set THEN estimationReason ELSE JsNull,
        combined_capacity_estimation |->
            estimateCombinedActivationCapacity(
                ProjArgs(Coalesce(count, Num(0)), Coalesce(withPhoto, Num(0)),
                         Num(usage.totalObjects), Num(usage.totalBytes),
                         storageRemainingBytes, databaseRemainingBytes, perActivation))]

\* line 968-1042: the estimator returned or threw; the summary is sent
Respond ==
    /\ pc = "estimate"
    /\ estPc \in {"returned", "thrown"}
    /\ LET estimatedDatabase == IF estPc = "returned" THEN estReturn ELSE NoEstimate
           reason == IF estPc = "thrown" THEN estError ELSE JsNull
           sent == SummaryOf(activacionesCount, activacionesWithPhotoCount, bucketUsage,
                             databaseSizeBytes, databaseSizeUnavailableReason,
                             estimatedDatabase, reason, config)
       IN /\ estimationUnavailableReason' = reason
          /\ summary' = sent
          /\ projReturn' = sent.combined_capacity_estimation
          /\ projArgs' =
                ProjArgs(sent.activaciones_count, sent.activaciones_with_photo_count,
                         sent.storage_objects_count, sent.storage_used_bytes,
                         sent.storage_remaining_bytes, sent.database_remaining_bytes,
                         perActivationDatabaseBytes(estimatedDatabase, activacionesCount,
                                                    sent.database_used_effective_bytes))
    /\ res' = Ok
    /\ pc' = "done"
    /\ UNCHANGED <<bucket, directoriesQueue, visitedDirectories, totalBytes, totalObjects,
                   currentDirectory, offset, bucketUsage, listCalls, listError,
                   processed, enqueued, counted, previousUsage, uploaded>>
    /\ UNCHANGED <<config, activacionesCount, activacionesWithPhotoCount,
                   databaseSizeBytes, databaseSizeUnavailableReason, answers, previous>>
    /\ UNCHANGED <<estVars, adminVars>>

\* the route is requested once more, against the same backends
RequestAgain ==
    /\ pc \in {"done", "failed"}
    /\ ~previous.set
    /\ previous' = [set |-> TRUE, answers |-> answers, listError |-> listError,
                    listCalls |-> listCalls, select |-> SelectAnswer,
                    res |-> res, summary |-> summary]
    /\ pc' = "count"
    /\ res' = NoResponse
    /\ summary' = NoSummary
    /\ answers' = NoAnswers
    /\ activacionesCount' = Undefined
    /\ activacionesWithPhotoCount' = Undefined
    /\ bucketUsage' = NoUsage
    /\ databaseSizeBytes' = JsNull
    /\ databaseSizeUnavailableReason' = JsNull
    /\ estimationUnavailableReason' = JsNull
    /\ listCalls' = 0
    /\ listError' = Undefined
    /\ processed' = << >>
    /\ enqueued' = ("" :> 1)
    /\ counted' = << >>
    /\ estArgs' = EstArgs(Undefined, Undefined, Undefined, Undefined)
    /\ estPc' = "idle"
    /\ estReturn' = NoEstimate
    /\ estError' = Undefined
    /\ estReads' = << >>
    /\ projArgs' = JsNull
    /\ projReturn' = NoProjection
    /\ UNCHANGED <<bucket, directoriesQueue, visitedDirectories, totalBytes, totalObjects,
                   currentDirectory, offset, previousUsage, uploaded>>
    /\ UNCHANGED <<config, table, estPrevious, adminVars>>

\* the locals of the route before a request
NotRequested ==
    /\ activacionesCount = Undefined
    /\ activacionesWithPhotoCount = Undefined
    /\ databaseSizeBytes = JsNull
    /\ databaseSizeUnavailableReason = JsNull
    /\ estimationUnavailableReason = JsNull
    /\ summary = NoSummary
    /\ answers = NoAnswers
    /\ previous = NoPreviousRequest

\* no request of the summary route
RouteIdle ==
    /\ config = [storageLimitBytes |-> 1000000000, databaseLimitBytes |-> 500000000]
    /\ NotRequested

\* a request of the summary route arrives
InitSummary ==
    /\ bucket \in {("" :> listing) : listing \in RouteListings}
    /\ directoriesQueue = << >>
    /\ visitedDirectories = {}
    /\ totalBytes = 0
    /\ totalObjects = 0
    /\ currentDirectory = ""
    /\ offset = 0
    /\ pc = "count"
    /\ bucketUsage = NoUsage
    /\ res = NoResponse
    /\ listCalls = 0
    /\ listError = Undefined
    /\ processed = << >>
    /\ enqueued = ("" :> 1)
    /\ counted = << >>
    /\ previousUsage = NoUsage
    /\ uploaded = NoUpload
    /\ table \in RouteTables
    /\ estArgs = EstArgs(Undefined, Undefined, Undefined, Undefined)
    /\ estPc = "idle"
    /\ estReturn = NoEstimate
    /\ estError = Undefined
    /\ estReads = << >>
    /\ estPrevious = NoPrevious
    /\ ProjIdle
    /\ AdminIdle
    /\ config \in Configs
    /\ NotRequested

SummaryNext ==
    \/ CountActivaciones
    \/ CountWithPhoto
    \/ NextDirectory
    \/ ListPage
    \/ ListError
    \/ Return
    \/ SizeProbe
    \/ EstimateCall
    \/ EstimateSelect
    \/ EstimateSelectError
    \/ Respond
    \/ RequestAgain

\* the summary route, requested twice
SpecSummary == InitSummary /\ [][SummaryNext]_vars

Init == ScanInit /\ EstIdle /\ ProjIdle /\ RouteIdle /\ AdminIdle

Next ==
    \/ NextDirectory
    \/ ListPage
    \/ ListError
    \/ Return
    \/ Upload
    \/ Request

Spec == Init /\ [][Next]_vars

EstimateNext ==
    \/ EstimateCall
    \/ EstimateSelect
    \/ EstimateSelectError
    \/ EstimateAgain

\* the estimator alone, on every table and every options argument
InitEstimate == ScanInit /\ EstInit /\ ProjIdle /\ RouteIdle /\ AdminIdle

SpecEstimate == InitEstimate /\ [][EstimateNext]_vars

\* the projector alone, on every argument
InitProject == ScanInit /\ EstIdle /\ ProjInit /\ RouteIdle /\ AdminIdle

SpecProject == InitProject /\ [][Project]_vars

\* requests of POST /admin/users, one after the other
InitUsers == ScanInit /\ EstIdle /\ ProjIdle /\ RouteIdle /\ AdminIdle

SpecUsers == InitUsers /\ [][UsersNext]_vars

\* concurrent requests of DELETE /admin/activaciones/:activacionId
InitDelete ==
    ScanInit /\ EstIdle /\ ProjIdle /\ RouteIdle /\ UsersIdle /\ DeleteInit /\ ConfirmIdle

SpecDelete == InitDelete /\ [][DeleteNext]_vars

\* the dialog, under any sequence of calls
InitConfirm == ScanInit /\ EstIdle /\ ProjIdle /\ RouteIdle /\ AdminIdle

SpecConfirm == InitConfirm /\ [][ConfirmNext]_vars

\* one request: the walk alone
ScanStep ==
    \/ NextDirectory
    \/ ListPage
    \/ ListError
    \/ Return

\* the walk runs on the event loop and list() answers: a step that can be
\* taken is taken
FairSpec == Init /\ [][ScanStep]_vars /\ WF_vars(ScanStep)


(***************************************************************************)
(* Properties of the walk.                                                 *)
(***************************************************************************)
Walking == pc \in {"while", "list"}
WalkEnded == pc \in {"scanned", "failed"}

\* the directory entries of a listing that name path `child` under `parent`
NamesPath(parent, listing, j, child) ==
    LET item == Catalogue[listing[j]]
    IN /\ item.name.k = "string"
       /\ IsNullish(item.id)
       /\ ~item.metadata.present
       /\ Trim(item.name.s) # ""
       /\ child = (IF parent = "" THEN Trim(item.name.s)
                   ELSE parent \o "/" \o Trim(item.name.s))

\* C1: every walk ends: the queue runs empty and the pagination of each
\* directory stops, whatever the listing repeats.
ScanTerminates == Walking ~> WalkEnded

\* a finished walk over a directory that names one child on two pages
RepeatedAcrossPagesScanned ==
    /\ pc = "scanned"
    /\ \E d \in DOMAIN bucket : \E j1, j2 \in 1..Len(bucket[d]) : \E child \in DOMAIN processed :
         /\ j1 <= PageLimit
         /\ j2 > PageLimit
         /\ NamesPath(d, bucket[d], j1, child)
         /\ NamesPath(d, bucket[d], j2, child)

\* C2: during one walk the pages of a directory path are started at most once.
ProcessedAtMostOnce == \A p \in DOMAIN processed : processed[p] <= 1

\* a finished walk in which two different parents named the same path
SeveralParentsProcessedOnce ==
    /\ pc = "scanned"
    /\ \E p \in DOMAIN processed : \E d1, d2 \in DOMAIN bucket :
         /\ d1 # d2
         /\ d1 \in visitedDirectories
         /\ d2 \in visitedDirectories
         /\ \E j \in 1..Len(bucket[d1]) : NamesPath(d1, bucket[d1], j, p)
         /\ \E j \in 1..Len(bucket[d2]) : NamesPath(d2, bucket[d2], j, p)
         /\ Times(enqueued, p) >= 2
         /\ processed[p] = 1

\* C3 as stated: no path is pushed on the queue twice during one walk.
EnqueuedAtMostOnce == \A p \in DOMAIN enqueued : enqueued[p] <= 1

\* C3 amended: a path that was visited is never pushed on the queue again.
VisitedNeverEnqueued ==
    [][Walking => \A p \in visitedDirectories : Times(enqueued', p) = Times(enqueued, p)]_vars

\* the listing entries, over the directories read, that name path p
Namings(p) ==
    UNION {{<<d, j>> : j \in {i \in 1..Len(bucket[d]) : NamesPath(d, bucket[d], i, p)}} :
           d \in visitedDirectories}

\* a finished walk in which a path was named more often than it was pushed:
\* it was named again after its visit, and not pushed
VisitedListedAgain ==
    /\ pc = "scanned"
    /\ ~uploaded.set
    /\ \E p \in visitedDirectories :
         /\ Times(enqueued, p) >= 1
         /\ Cardinality(Namings(p)) > Times(enqueued, p)

IsPlaceholderShape(i) == Catalogue[i].name = Str(".emptyFolderPlaceholder")

OnlyPlaceholders(listing) ==
    /\ listing # << >>
    /\ \A j \in 1..Len(listing) : IsPlaceholderShape(listing[j])

\* C4: an empty bucket gives totals 0 and 0, and a directory that holds only
\* the placeholder adds no bytes and no objects to a finished walk.
ZeroObjects ==
    pc = "scanned" /\ ~uploaded.set =>
        /\ bucket[""] = << >> => bucketUsage = Usage(0, 0)
        /\ \A d \in DOMAIN counted :
             OnlyPlaceholders(bucket[d]) => counted[d] = [bytes |-> 0, objects |-> 0]

\* a finished walk that read a subdirectory holding only placeholders
PlaceholderOnlyScanned ==
    /\ pc = "scanned"
    /\ ~uploaded.set
    /\ \E d \in DOMAIN counted : d # "" /\ OnlyPlaceholders(bucket[d])

\* C5: with one more file of size S stored in a scanned directory, the next
\* walk returns S more bytes and one more object.
MonotonicSizing ==
    pc = "scanned" /\ previousUsage.set /\ uploaded.set =>
        /\ bucketUsage.totalBytes = previousUsage.totalBytes + uploaded.size
        /\ bucketUsage.totalObjects = previousUsage.totalObjects + 1

\* the second walk ended after a file was stored on a later page of a subdirectory
UploadedAndRescanned ==
    /\ pc = "scanned"
    /\ previousUsage.set
    /\ uploaded.set
    /\ uploaded.dir # ""
    /\ uploaded.size > 0
    /\ Len(bucket[uploaded.dir]) > PageLimit
    /\ previousUsage.totalObjects > 0

\* C6: a list() error ends the request at once: status 500 with the message,
\* no usage figures, and no list() call after it.
FailFast ==
    [][/\ listError'.k # "undefined" =>
            /\ pc' = "failed"
            /\ ~bucketUsage'.set
            /\ res'.status = 500
            /\ res'.details = (IF listError'.s # "" THEN listError' ELSE Undefined)
       /\ pc = "failed" => listCalls' = listCalls /\ res' = res /\ bucketUsage' = bucketUsage
      ]_vars

\* the walk failed on a later page, after it had counted objects
FailedAfterCounting ==
    /\ pc = "failed"
    /\ listCalls >= 2
    /\ totalObjects > 0
    /\ res.status = 500
    /\ res.details = Str("storage timeout")

(***************************************************************************)
(* Properties of the row-sample estimator.                                 *)
(***************************************************************************)
EstimatorLeftCall == estPc \in {"select", "returned", "thrown"}

\* C7: called with a row count <= 0 the estimator returns, without reading
\* the table, sample_size 0, 0 bytes a row and 0 bytes used, the whole limit
\* as remaining bytes and 0 percent used (null without a limit), and null
\* for both capacity fields.
DegenerateEstimate ==
    EstimatorLeftCall /\ estArgs.activacionesCount.k = "number"
                      /\ estArgs.activacionesCount.n <= 0 =>
        /\ estPc = "returned"
        /\ estReads = << >>
        /\ estReturn.sample_size = Num(0)
        /\ estReturn.per_activation_estimated_bytes = Num(0)
        /\ estReturn.estimated_database_used_bytes = Num(0)
        /\ estReturn.estimated_database_remaining_bytes =
              (IF estArgs.databaseLimitBytes.k = "number"
               THEN estArgs.databaseLimitBytes ELSE JsNull)
        /\ estReturn.estimated_database_usage_percent =
              (IF estArgs.databaseLimitBytes.k = "number" THEN Num(0) ELSE JsNull)
        /\ estReturn.estimated_activaciones_capacity_total = JsNull
        /\ estReturn.estimated_activaciones_capacity_remaining = JsNull

\* the estimator returned for a count of 0 and a limit, the table holding rows
ZeroCountReturned ==
    /\ estPc = "returned"
    /\ estArgs.activacionesCount = Num(0)
    /\ estArgs.databaseLimitBytes = Num(10000)
    /\ table # << >>
    /\ estReturn.set

\* two calls on the same non-empty sample, the second with a larger factor
SameSampleLargerFactor ==
    /\ estPc = "returned"
    /\ estPrevious.set
    /\ estPrevious.return.sample_size.n > 0
    /\ estReturn.sample_size = estPrevious.return.sample_size

\* C8 as stated: a larger overhead_factor strictly raises the bytes a row is
\* estimated at and the bytes estimated as used.
StrictOverheadMonotonicity ==
    SameSampleLargerFactor =>
        /\ estReturn.per_activation_estimated_bytes.n >
              estPrevious.return.per_activation_estimated_bytes.n
        /\ estReturn.estimated_database_used_bytes.n >
              estPrevious.return.estimated_database_used_bytes.n

\* C8 amended: a larger overhead_factor never lowers either figure, and raises
\* both when it adds a byte or more to average x factor and the smaller
\* product rounds to a byte or more.
OverheadMonotonicity ==
    SameSampleLargerFactor =>
        LET total == totalJsonPayloadBytes(table)
            size == Len(table)
            smaller == overheadFactorOf(estPrevious.args).n
            larger == overheadFactorOf(estArgs).n
        IN /\ estReturn.per_activation_estimated_bytes.n >=
                 estPrevious.return.per_activation_estimated_bytes.n
           /\ estReturn.estimated_database_used_bytes.n >=
                 estPrevious.return.estimated_database_used_bytes.n
           /\ (total * (larger - smaller) >= size * 100
                 /\ 2 * total * smaller >= size * 100) =>
                 /\ estReturn.per_activation_estimated_bytes.n >
                       estPrevious.return.per_activation_estimated_bytes.n
                 /\ estReturn.estimated_database_used_bytes.n >
                       estPrevious.return.estimated_database_used_bytes.n

\* a larger factor left the estimate of a row of 5 bytes where it was
LargerFactorSameEstimate ==
    /\ SameSampleLargerFactor
    /\ totalJsonPayloadBytes(table) > 0
    /\ estReturn.per_activation_estimated_bytes =
          estPrevious.return.per_activation_estimated_bytes
    /\ estReturn.estimated_database_used_bytes =
          estPrevious.return.estimated_database_used_bytes

(***************************************************************************)
(* Properties of the capacity projector.                                   *)
(***************************************************************************)
AllArgsNull ==
    projArgs = ProjArgs(JsNull, JsNull, JsNull, JsNull, JsNull, JsNull, JsNull)

NothingEstimated ==
    /\ projReturn.estimated_activaciones_with_photo_remaining = JsNull
    /\ projReturn.estimated_remaining_by_database = JsNull
    /\ projReturn.estimated_remaining_by_storage = JsNull
    /\ projReturn.average_photo_bytes = JsNull

MissingInputGivesNull ==
    projReturn.set =>
        /\ (IsNullish(projArgs.storageRemainingBytes)
              \/ projReturn.average_photo_bytes = JsNull)
             => projReturn.estimated_remaining_by_storage = JsNull
        /\ (IsNullish(projArgs.databaseRemainingBytes)
              \/ IsNullish(projArgs.perActivationDatabaseBytes)
              \/ (projArgs.perActivationDatabaseBytes.k = "number"
                    /\ projArgs.perActivationDatabaseBytes.n <= 0))
             => projReturn.estimated_remaining_by_database = JsNull
        /\ IsNullish(projArgs.storageUsedBytes)
             => projReturn.average_photo_bytes = JsNull

\* the two remaining-by figures of the returned projection
ByDatabase == projReturn.estimated_remaining_by_database
ByStorage == projReturn.estimated_remaining_by_storage

\* C11: limiting_factor is 'storage' when both remaining-by figures exist and
\* remaining-by-storage <= remaining-by-database (a tie gives 'storage'),
\* 'database' when both exist and remaining-by-database is strictly smaller,
\* and the one resource that has a figure when exactly one exists.
LimitingFactorContract ==
    projReturn.set =>
        /\ (ByDatabase # JsNull /\ ByStorage # JsNull /\ ByStorage.n <= ByDatabase.n)
              => projReturn.limiting_factor = Str("storage")
        /\ (ByDatabase # JsNull /\ ByStorage # JsNull /\ ByDatabase.n < ByStorage.n)
              => projReturn.limiting_factor = Str("database")
        /\ (ByDatabase = JsNull /\ ByStorage # JsNull)
              => projReturn.limiting_factor = Str("storage")
        /\ (ByDatabase # JsNull /\ ByStorage = JsNull)
              => projReturn.limiting_factor = Str("database")

\* the tie of 100 and 100 was projected
TieProjected ==
    /\ projReturn.set
    /\ ByDatabase = Num(100)
    /\ ByStorage = Num(100)
    /\ projReturn.limiting_factor = Str("storage")

(***************************************************************************)
(* Properties of the summary route.                                        *)
(***************************************************************************)
RequestFailed == pc = "failed" /\ res.status = 500 /\ ~summary.set

\* C12: a failure of either count query or of the bucket scan ends the request
\* with an error and no summary; a failure of the size probe or of the row
\* estimator never fails the request: the summary is sent, with the
\* corresponding field null.
FailureSemantics ==
    /\ (answers.count.set /\ answers.count.error # JsNull) => RequestFailed
    /\ (answers.photo.set /\ answers.photo.error # JsNull) => RequestFailed
    /\ listError # Undefined => RequestFailed
    /\ answers.probe.set => (pc \in {"estimate", "done"} /\ res.status # 500)
    /\ pc = "done" =>
          /\ summary.set
          /\ res = Ok
          /\ answers.probe.error # JsNull => summary.database_size_bytes = JsNull
          /\ estPc = "thrown" => ~summary.database_estimation.set

\* the probe and the estimator both failed, and the summary was sent
OptionalFailuresSummarySent ==
    /\ pc = "done"
    /\ summary.set
    /\ answers.probe.error # JsNull
    /\ estPc = "thrown"
    /\ summary.database_size_bytes = JsNull
    /\ ~summary.database_estimation.set

IsReason(v) == v.k = "string"

\* C13: in every summary sent, a null database_size_bytes comes with a
\* database_size_unavailable_reason that is a string, also when the probe
\* answered an unparseable value without an error, and a null
\* database_estimation comes with a database_estimation_unavailable_reason
\* that is a string.
EverySummaryExplained ==
    summary.set =>
        /\ summary.database_size_bytes = JsNull
              => IsReason(summary.database_size_unavailable_reason)
        /\ ~summary.database_estimation.set
              => IsReason(summary.database_estimation_unavailable_reason)

\* a finite, non-negative number, or a string that writes one
IsSize(v) ==
    \/ v.k = "number" /\ v.n >= 0
    \/ v.k = "string" /\ Trim(v.s) # "" /\ Number(v).k = "number" /\ Number(v).n >= 0

\* the size field of an object: the first candidate key that is there
SizeField(fields) ==
    IF ~IsNullish(fields.get_database_size_bytes) THEN fields.get_database_size_bytes
    ELSE IF ~IsNullish(fields.database_size_bytes) THEN fields.database_size_bytes
         ELSE fields.size_bytes

\* the probe succeeded and answered a well-formed size
WellFormedProbe(answer) ==
    /\ answer.set
    /\ answer.error = JsNull
    /\ IF answer.data.value.k = "object" THEN IsSize(SizeField(answer.data.fields))
       ELSE IsSize(answer.data.value)

ProbedSize(answer) ==
    IF answer.data.value.k = "object" THEN Number(SizeField(answer.data.fields))
    ELSE Number(answer.data.value)

\* C14: database_used_effective_bytes is the probe's value exactly when the
\* probe succeeded and answered a well-formed size (a finite, non-negative
\* number, a numeric string, or an object's size field); in every other case
\* it is the estimate's estimated_database_used_bytes, or null when the
\* estimator failed as well.
EffectiveFromWellFormedProbe ==
    summary.set =>
        summary.database_used_effective_bytes =
            IF WellFormedProbe(answers.probe) THEN ProbedSize(answers.probe)
            ELSE IF summary.database_estimation.set
                 THEN summary.database_estimation.estimated_database_used_bytes
                 ELSE JsNull

CountIsPositive == Number(Coalesce(activacionesCount, Num(0))).n > 0

SameAnswers ==
    /\ previous.set
    /\ answers = previous.answers
    /\ listError = previous.listError
    /\ listCalls = previous.listCalls
    /\ SelectAnswer = previous.select

\* a step leaves the bucket, the table and the configuration as they are
ReadOnly ==
    /\ \A dir \in DOMAIN bucket : dir \in DOMAIN bucket' /\ bucket'[dir] = bucket[dir]
    /\ table' = table
    /\ config' = config

\* C16: the route only reads the record store and the object storage, and
\* keeps no state between requests: two requests that the unchanged backends
\* answer alike send identical responses.
Stateless ==
    /\ []((pc \in {"done", "failed"} /\ SameAnswers)
            => (res = previous.res /\ summary = previous.summary))
    /\ [][ReadOnly]_vars

\* two requests sent the same summary of a bucket that holds files
SameSummaryTwice ==
    /\ pc = "done"
    /\ SameAnswers
    /\ summary.set
    /\ summary.storage_used_bytes.n > 0
    /\ summary = previous.summary

(***************************************************************************)
(* Properties of the walk's totals and of the estimator's sample.          *)
(***************************************************************************)
\* the walk returned, and the bucket is the one it walked
Scanned == pc = "scanned" /\ (uploaded.set => previousUsage.set)

RECURSIVE SumSeq(_)
SumSeq(seq) == IF seq = << >> THEN 0 ELSE Head(seq) + SumSeq(Tail(seq))

RECURSIVE SumOver(_, _)
SumOver(f, dirs) ==
    IF dirs = {} THEN 0
    ELSE LET d == CHOOSE x \in dirs : TRUE
         IN f[d] + SumOver(f, dirs \ {d})

IsNamed(item) == item.name.k = "string" /\ Trim(item.name.s) # ""

\* a named entry with an id or a metadata block, other than the placeholder
IsFileEntry(item) ==
    /\ IsNamed(item)
    /\ ~IsNullish(item.id) \/ item.metadata.present
    /\ Trim(item.name.s) # ".emptyFolderPlaceholder"

\* a named entry with neither an id nor a metadata block
IsDirectoryEntry(item) ==
    /\ IsNamed(item)
    /\ IsNullish(item.id)
    /\ ~item.metadata.present

IsValidSize(v) == ~IsNullish(v) /\ Number(v).k = "number" /\ Number(v).n >= 0

\* the first finite, non-negative value under size, contentLength, content_length
FirstValidSize(item) ==
    IF IsValidSize(item.metadata.size) THEN Number(item.metadata.size).n
    ELSE IF IsValidSize(item.metadata.contentLength)
         THEN Number(item.metadata.contentLength).n
         ELSE IF IsValidSize(item.metadata.content_length)
              THEN Number(item.metadata.content_length).n
              ELSE 0

\* C17: for every file entry the walk adds the first finite, non-negative
\* value found under size, contentLength, content_length: what the entries
\* of a directory added to totalBytes is the sum of those values, also when
\* an earlier key holds a value that is not a number.
FirstValidSizeCounted ==
    Scanned =>
        \A d \in DOMAIN counted :
            counted[d].bytes =
                SumSeq([j \in 1..Len(bucket[d]) |->
                          IF IsFileEntry(Catalogue[bucket[d][j]])
                          THEN FirstValidSize(Catalogue[bucket[d][j]]) ELSE 0])

\* the size an entry reports: the value of the first key that is there
ReportedSize(item) ==
    LET v == IF ~IsNullish(item.metadata.size) THEN item.metadata.size
             ELSE IF ~IsNullish(item.metadata.contentLength)
                  THEN item.metadata.contentLength
                  ELSE item.metadata.content_length
    IN IF IsValidSize(v) THEN Number(v).n ELSE 0

ChildPath(parent, item) ==
    IF parent = "" THEN Trim(item.name.s) ELSE parent \o "/" \o Trim(item.name.s)

\* the list() calls that read a directory of n entries page by page: the
\* full pages, and the first page that is short or empty
PagesOf(n) == (n \div PageLimit) + 1

FileCount(listing) ==
    SumSeq([j \in 1..Len(listing) |-> IF IsFileEntry(Catalogue[listing[j]]) THEN 1 ELSE 0])

FileBytes(listing) ==
    SumSeq([j \in 1..Len(listing) |->
              IF IsFileEntry(Catalogue[listing[j]])
              THEN ReportedSize(Catalogue[listing[j]]) ELSE 0])

\* C18: the walk reads every directory reachable from the root, and only
\* those, at offsets 0, limit, 2 * limit, ... up to the first page that is
\* empty or shorter than the limit; on return totalObjects is the number of
\* named file entries other than the placeholder over those pages and
\* totalBytes the sum of their sizes; directory entries, unnamed entries and
\* placeholders add nothing.
PaginatedTotals ==
    /\ offset % PageLimit = 0
    /\ Scanned =>
          /\ "" \in visitedDirectories
          /\ visitedDirectories = DOMAIN bucket
          /\ \A d \in visitedDirectories :
                /\ d = "" \/ \E parent \in visitedDirectories :
                                \E j \in 1..Len(bucket[parent]) :
                                  /\ IsDirectoryEntry(Catalogue[bucket[parent][j]])
                                  /\ d = ChildPath(parent, Catalogue[bucket[parent][j]])
                /\ \A j \in 1..Len(bucket[d]) :
                      IsDirectoryEntry(Catalogue[bucket[d][j]])
                          => ChildPath(d, Catalogue[bucket[d][j]]) \in visitedDirectories
          /\ listCalls = SumOver([d \in visitedDirectories |-> PagesOf(Len(bucket[d]))],
                                 visitedDirectories)
          /\ bucketUsage.totalObjects =
                SumOver([d \in visitedDirectories |-> FileCount(bucket[d])],
                        visitedDirectories)
          /\ bucketUsage.totalBytes =
                SumOver([d \in visitedDirectories |-> FileBytes(bucket[d])],
                        visitedDirectories)

\* a finished walk of a root of several pages that holds a file, an entry
\* that is no file, and a subdirectory
SeveralPagesScanned ==
    /\ Scanned
    /\ Len(bucket[""]) > PageLimit
    /\ Cardinality(visitedDirectories) >= 2
    /\ bucketUsage.totalObjects >= 1
    /\ bucketUsage.totalObjects < SumOver([d \in visitedDirectories |-> Len(bucket[d])],
                                          visitedDirectories) - 1

\* the sample limit the options ask for; 240 when none is given
RequestedSampleLimit ==
    IF IsNullish(estArgs.sampleLimit) THEN 240
    ELSE MathMin(500, MathMax(40, estArgs.sampleLimit.n))

\* C19: the estimator asks the table for min(500, max(40, sample_limit))
\* rows, and for 240 rows when no sample_limit is given.
ClampsSampleLimit ==
    \A i \in 1..Len(estReads) : estReads[i] = RequestedSampleLimit

\* the count is positive, the table was read and answered no rows
EmptySampleReturned ==
    /\ estPc = "returned"
    /\ estReads # << >>
    /\ estReturn.sample_size = Num(0)

\* C20: for a positive count and a sample read that answers no rows the
\* estimator returns, field by field, what it returns for a count of 0, and
\* does not throw; it throws only when the sample read answers with an error.
EmptySampleIsZeroEstimate ==
    /\ EmptySampleReturned =>
          /\ normalizedCount(estArgs).n > 0
          /\ estReturn = EstimateOfNoRows(overheadFactorOf(estArgs),
                                          databaseLimitBytesOf(estArgs))
    /\ estPc = "thrown" => (estReads # << >> /\ estError \in ErrorMessages)
    /\ estError # Undefined => estPc = "thrown"

\* no rows were answered from a table that holds rows
NoRowsOfPositiveCount ==
    /\ EmptySampleReturned
    /\ normalizedCount(estArgs).n > 0
    /\ table # << >>
    /\ ~IsNullish(databaseLimitBytesOf(estArgs))

(***************************************************************************)
(* Properties of the figures the estimator returns for a sample with rows. *)
(***************************************************************************)
\* the estimator returned an estimate made from rows
SampleReturned == estPc = "returned" /\ estReturn.sample_size.n > 0

\* the serialized bytes of the sample; a row that does not serialize adds none
SampleBytes ==
    SumSeq([i \in 1..Len(table) |-> IF table[i].serializable THEN table[i].bytes ELSE 0])

\* r is n / d rounded to the nearest integer, halves up
IsRounded(r, n, d) == 2 * d * r <= 2 * n + d /\ 2 * n + d < 2 * d * (r + 1)

\* C21: for a sample with rows, per_activation_estimated_bytes is
\* max(1, round(average serialized row bytes * overhead_factor)) and
\* estimated_database_used_bytes is that figure times the total row count.
EstimateFormula ==
    SampleReturned =>
        LET factor == overheadFactorOf(estArgs).n
            perRow == estReturn.per_activation_estimated_bytes.n
            count == Number(estArgs.activacionesCount).n
        IN /\ estReturn.sample_size.n = Len(table)
           /\ IF 2 * SampleBytes * factor < Len(table) * 100 THEN perRow = 1
              ELSE IsRounded(perRow, SampleBytes * factor, Len(table) * 100)
           /\ estReturn.estimated_database_used_bytes = Num(perRow * count)

\* rows of 1000 bytes, factor 1.34 and 500 rows gave 1340 and 670000
ExampleEstimated ==
    /\ SampleReturned
    /\ SampleBytes = 1000 * Len(table)
    /\ overheadFactorOf(estArgs) = Hundredths(134)
    /\ estArgs.activacionesCount = Num(500)
    /\ estReturn.per_activation_estimated_bytes = Num(1340)
    /\ estReturn.estimated_database_used_bytes = Num(670000)

\* the remaining bytes and the capacity figures for a limit, as stated
FiguresOfLimit(limit) ==
    LET perRow == estReturn.per_activation_estimated_bytes.n
        used == estReturn.estimated_database_used_bytes.n
        count == Number(estArgs.activacionesCount).n
        capacity == limit \div perRow
    IN /\ estReturn.estimated_database_remaining_bytes =
             Num(IF limit - used > 0 THEN limit - used ELSE 0)
       /\ estReturn.estimated_activaciones_capacity_total = Num(capacity)
       /\ estReturn.estimated_activaciones_capacity_remaining =
             Num(IF capacity - count > 0 THEN capacity - count ELSE 0)
       /\ estReturn.estimated_database_remaining_bytes.n >= 0
       /\ estReturn.estimated_activaciones_capacity_total.n >= 0
       /\ estReturn.estimated_activaciones_capacity_remaining.n >= 0

NoFigures ==
    /\ estReturn.estimated_database_remaining_bytes = JsNull
    /\ estReturn.estimated_database_usage_percent = JsNull
    /\ estReturn.estimated_activaciones_capacity_total = JsNull
    /\ estReturn.estimated_activaciones_capacity_remaining = JsNull

\* C22 as stated: with a byte limit the remaining bytes are max(0, limit -
\* used), the capacity total is floor(limit / bytes a row) and the capacity
\* remaining max(0, capacity total - row count), none negative; without a
\* limit the remaining bytes, the usage percent and both capacities are null.
CapacityFiguresOfAnyLimit ==
    SampleReturned =>
        IF IsNullish(databaseLimitBytesOf(estArgs)) THEN NoFigures
        ELSE FiguresOfLimit(databaseLimitBytesOf(estArgs).n)

\* C22, amended: the three figures are those for a positive byte limit; for
\* a limit of 0 the remaining bytes are 0 and the usage percent and both
\* capacities are null; without a limit all four are null.
CapacityFiguresOfPositiveLimit ==
    SampleReturned =>
        LET limit == databaseLimitBytesOf(estArgs)
        IN IF IsNullish(limit) THEN NoFigures
           ELSE IF limit.n > 0
                THEN /\ FiguresOfLimit(limit.n)
                     /\ estReturn.estimated_database_usage_percent.k = "number"
                ELSE /\ estReturn.estimated_database_remaining_bytes = Num(0)
                     /\ estReturn.estimated_database_usage_percent = JsNull
                     /\ estReturn.estimated_activaciones_capacity_total = JsNull
                     /\ estReturn.estimated_activaciones_capacity_remaining = JsNull

\* limit 500000000, 1340 bytes a row and 500 rows gave 373134 and 372634
ExampleCapacity ==
    /\ SampleReturned
    /\ estArgs.databaseLimitBytes = Num(500000000)
    /\ estReturn.per_activation_estimated_bytes = Num(1340)
    /\ estArgs.activacionesCount = Num(500)
    /\ estReturn.estimated_activaciones_capacity_total = Num(373134)
    /\ estReturn.estimated_activaciones_capacity_remaining = Num(372634)

(***************************************************************************)
(* Properties of the figures the projector returns.                        *)
(***************************************************************************)
IsCountOrNull(v) == v = JsNull \/ (v.k = "number" /\ v.n >= 0)

\* C23: whatever the inputs (negative, not finite, not numbers, missing) the
\* projector returns, and every numeric field of the result is a finite
\* number that is not negative, or null.
ProjectorTotal ==
    projReturn.set =>
        /\ IsCountOrNull(projReturn.activaciones_with_photo_count)
        /\ IsCountOrNull(projReturn.photo_coverage_percent)
        /\ IsCountOrNull(projReturn.sample_photos_count)
        /\ IsCountOrNull(projReturn.average_photo_bytes)
        /\ IsCountOrNull(projReturn.per_activation_database_estimated_bytes)
        /\ IsCountOrNull(projReturn.per_activation_total_estimated_bytes)
        /\ IsCountOrNull(projReturn.estimated_activaciones_with_photo_total)
        /\ IsCountOrNull(projReturn.estimated_activaciones_with_photo_remaining)
        /\ IsCountOrNull(projReturn.estimated_remaining_by_database)
        /\ IsCountOrNull(projReturn.estimated_remaining_by_storage)

Remaining == projReturn.estimated_activaciones_with_photo_remaining

\* C24: the estimated remaining count is the smaller of the two remaining-by
\* figures when both exist, the one that exists when only one does, and null
\* when neither does; the resource limiting_factor names has a remaining-by
\* figure equal to the estimated remaining count.
RemainingIsBindingConstraint ==
    projReturn.set =>
        /\ (ByDatabase # JsNull /\ ByStorage # JsNull) =>
              /\ Remaining \in {ByDatabase, ByStorage}
              /\ Remaining.n <= ByDatabase.n
              /\ Remaining.n <= ByStorage.n
        /\ (ByDatabase # JsNull /\ ByStorage = JsNull) => Remaining = ByDatabase
        /\ (ByDatabase = JsNull /\ ByStorage # JsNull) => Remaining = ByStorage
        /\ (ByDatabase = JsNull /\ ByStorage = JsNull) => Remaining = JsNull
        /\ projReturn.limiting_factor = Str("storage")
              => (ByStorage # JsNull /\ ByStorage = Remaining)
        /\ projReturn.limiting_factor = Str("database")
              => (ByDatabase # JsNull /\ ByDatabase = Remaining)

\* the database leaves room for 100 and the storage for 250: 100 remain
DatabaseBindsProjected ==
    /\ projReturn.set
    /\ ByDatabase = Num(100)
    /\ ByStorage = Num(250)
    /\ Remaining = Num(100)
    /\ projReturn.limiting_factor = Str("database")

\* a count that is given and positive
IsPositiveInput(v) == v.k = "Infinity" \/ (v.k = "number" /\ v.n > 0)

\* storage_used_bytes is present: a finite number
IsPresentBytes(v) == v.k = "number"

\* the attachment sample size of the arguments
SampleSizeOf(args) ==
    IF IsPositiveInput(args.activacionesWithPhotoCount) THEN args.activacionesWithPhotoCount
    ELSE IF IsPositiveInput(args.storageObjectsCount) THEN args.storageObjectsCount
         ELSE Num(0)

\* a is max(1, round(used / size))
IsAverage(a, used, size) ==
    IF 2 * used < size THEN a = 1 ELSE IsRounded(a, used, size)

\* C25: the attachment sample size is unit_with_attachment_count when
\* positive, else attachment_object_count when positive, else 0; the average
\* attachment bytes are max(1, round(storage_used_bytes / sample size)) when
\* storage_used_bytes is present and the sample size positive, else null.
AttachmentAverage ==
    projReturn.set =>
        LET size == SampleSizeOf(projArgs)
            used == projArgs.storageUsedBytes
        IN /\ projReturn.sample_photos_count = size
           /\ IF IsPresentBytes(used) /\ IsPositiveInput(size)
              THEN /\ projReturn.average_photo_bytes.k = "number"
                   /\ IF size.k = "Infinity" THEN projReturn.average_photo_bytes.n = 1
                      ELSE IsAverage(projReturn.average_photo_bytes.n,
                                     IF used.n > 0 THEN used.n ELSE 0, size.n)
              ELSE projReturn.average_photo_bytes = JsNull

\* unit_count as the projector counts it: a positive number, or 0
UnitCountOf(v) == IF v.k = "number" /\ v.n > 0 THEN v.n ELSE 0

\* unit_count + remaining, where an unbounded unit_count stays unbounded
PlusRemaining(v, remaining) ==
    IF v.k = "Infinity" THEN Infinity ELSE Num(UnitCountOf(v) + remaining)

\* C26: the estimated total is unit_count + the estimated remaining count
\* when that is known and null otherwise; the coverage percent is the share
\* of unit_count that has an attachment, to two decimals, and null when
\* unit_count is 0; a reason is recorded exactly when the average attachment
\* bytes or the per-unit database bytes are null.  The share is stated for
\* counts that are finite.
TotalCoverageReason ==
    projReturn.set =>
        LET count == projArgs.activacionesCount
            withPhoto == projArgs.activacionesWithPhotoCount
        IN /\ projReturn.estimated_activaciones_with_photo_total =
                 (IF Remaining = JsNull THEN JsNull ELSE PlusRemaining(count, Remaining.n))
           /\ projReturn.photo_coverage_percent = JsNull <=> ~IsPositiveInput(count)
           /\ (IsPositiveInput(count) /\ count.k = "number" /\ withPhoto.k # "Infinity") =>
                 /\ projReturn.photo_coverage_percent.k = "number"
                 /\ IsRounded(projReturn.photo_coverage_percent.n,
                              (IF UnitCountOf(withPhoto) < count.n
                               THEN UnitCountOf(withPhoto) ELSE count.n) * 10000,
                              count.n)
           /\ projReturn.unavailable_reason # JsNull
                 <=> (projReturn.average_photo_bytes = JsNull
                        \/ projReturn.per_activation_database_estimated_bytes = JsNull)

\* 4 of 10 units have a photo: 40 percent, 100 remain, 110 in total, no reason
CoverageProjected ==
    /\ projReturn.set
    /\ projArgs.activacionesCount = Num(10)
    /\ projArgs.activacionesWithPhotoCount = Num(4)
    /\ projReturn.photo_coverage_percent = Num(4000)
    /\ Remaining = Num(100)
    /\ projReturn.estimated_activaciones_with_photo_total = Num(110)
    /\ projReturn.unavailable_reason = JsNull

(***************************************************************************)
(* Properties of the remaining bytes of the summary.                       *)
(***************************************************************************)
Within(v, limit) == v.k = "number" /\ 0 <= v.n /\ v.n <= limit.n

\* C27: in every summary that is sent, storage_remaining_bytes lies between
\* 0 and storage_limit_bytes, and database_remaining_bytes is null or lies
\* between 0 and database_limit_bytes, whatever the bucket lists and whatever
\* the size probe and the row estimator answer.
RemainingWithinLimits ==
    summary.set =>
        /\ Within(summary.storage_remaining_bytes, summary.storage_limit_bytes)
        /\ \/ summary.database_remaining_bytes = JsNull
           \/ Within(summary.database_remaining_bytes, summary.database_limit_bytes)

\* the storage half of C27 on its own
StorageRemainingWithinLimit ==
    summary.set => Within(summary.storage_remaining_bytes, summary.storage_limit_bytes)

(***************************************************************************)
(* Properties of POST /admin/users.                                        *)
(***************************************************************************)
HasRow(id) == \E row \in activadores : row.usuario_id = id

IssuedBefore500(name, id) ==
    /\ userRes.status = 500
    /\ \E i \in DOMAIN userCalls : userCalls[i] = UserCall(name, id)

\* C28: when a request has completed, the Auth user it created exists if and
\* only if its activadores row exists; when the insert failed after the
\* Auth user was created, a deleteUser for that id was issued before the 500
\* response and the Auth user is gone.
CreatedIffInserted ==
    (userPc = "done" /\ created # JsNull) =>
        /\ created.n \in authUsers <=> HasRow(created.n)
        /\ insertErr # JsNull =>
              /\ IssuedBefore500("deleteUser", created.n)
              /\ created.n \notin authUsers

\* the compensating call on its own: it is issued before the 500 response
CompensationIssued ==
    (userPc = "done" /\ created # JsNull /\ insertErr # JsNull) =>
        IssuedBefore500("deleteUser", created.n)

(***************************************************************************)
(* Properties of DELETE /admin/activaciones/:activacionId.                 *)
(***************************************************************************)
RemovesOf(r) == {i \in DOMAIN removeLog : removeLog[i].request = r}

Refused(r) == delPc[r] = "done" /\ delRes[r].status \in {400, 404, 500}

RemovalFailed(r) ==
    /\ delPc[r] = "done"
    /\ delRes[r].photoDelete.attempted
    /\ ~delRes[r].photoDelete.ok

\* C29: a storage remove is issued only once the delete of that request has
\* reported at least one row and the row is gone from the table; a request
\* that answers an error (the read or the delete failed, or no row was found)
\* has issued no remove, and only removed paths have left the bucket; when
\* the removal fails the row stays deleted and the response is ok with a
\* warning.
RemoveOnlyAfterDelete ==
    /\ \A i \in DOMAIN removeLog :
          /\ removeLog[i].reported >= 1
          /\ ~removeLog[i].rowPresent
    /\ \A r \in DeleteRequests : Refused(r) => RemovesOf(r) = {}
    /\ AllPhotos \ photos \subseteq {removeLog[i].path : i \in DOMAIN removeLog}
    /\ \A r \in DeleteRequests :
          RemovalFailed(r) =>
              /\ delRes[r].status = 200
              /\ delRes[r].ok
              /\ delRes[r].deleted_activation
              /\ delRes[r].warning # ""
              /\ RowsOf(activacionId[r]) = {}

\* a removal failed: the row is gone, the photo is still stored, the answer
\* is ok with a warning; the other request found the row deleted under it
FailedRemovalWarned ==
    \E r \in DeleteRequests :
        /\ RemovalFailed(r)
        /\ delRes[r].ok
        /\ delRes[r].warning # ""
        /\ delRes[r].photoDelete.object_path.s \in photos
        /\ RowsOf(activacionId[r]) = {}
        /\ \E other \in DeleteRequests \ {r} :
              /\ delPc[other] = "done"
              /\ delRes[other].status = 404
              /\ existingRow[other] # NoActivacion

(***************************************************************************)
(* Properties of the confirmation dialog.                                  *)
(***************************************************************************)
PendingPromises == {i \in DOMAIN promises : promises[i].state = "pending"}

\* C30: under any sequence of requestConfirmation and settleConfirmation
\* calls at most one promise is pending, and it is the one returned last; a
\* promise that a later requestConfirmation found pending was resolved by it
\* with false; the resolve function of a promise is called at most once; and
\* after settleConfirmation the dialog is closed, holds no resolver and no
\* promise is pending.
SingleConfirmation ==
    /\ Cardinality(PendingPromises) <= 1
    /\ PendingPromises \subseteq {Len(promises)}
    /\ \A i \in DOMAIN promises :
          /\ promises[i].resolveCalls <= 1
          /\ promises[i].by = "requestConfirmation" => promises[i].value = FALSE
    /\ confirm.resolver # 0 => confirm.resolver \in PendingPromises
    /\ lastCall = "settleConfirmation" =>
          /\ ~confirm.isOpen
          /\ confirm.resolver = 0
          /\ PendingPromises = {}

\* the first confirmation was replaced by a second, which was then accepted
SupersededThenAccepted ==
    /\ Len(promises) = 2
    /\ promises[1] = [state |-> "fulfilled", value |-> FALSE, resolveCalls |-> 1,
                      by |-> "requestConfirmation"]
    /\ promises[2] = [state |-> "fulfilled", value |-> TRUE, resolveCalls |-> 1,
                      by |-> "settleConfirmation"]
    /\ lastCall = "settleConfirmation"
    /\ ~confirm.isOpen
====
